---- MODULE Spec2Model ----
(***************************************************************************)
(* Model of the nested Parquet page decoder (nested_utils.rs with the      *)
(* Binary leaf decoder of binary/nested.rs) and of GrowableUnion           *)
(* (array/growable/union.rs).                                              *)
(*                                                                         *)
(* Option<T> is a sequence: <<>> is None, <<x>> is Some(x).  Depths are    *)
(* 1-based here (depth d of the model is depth d-1 of the Rust code).      *)
(* A binary value is a sequence of bytes; <<>> is the empty slice, which   *)
(* is also `Default::default()` of `&[u8]`.                                *)
(***************************************************************************)
EXTENDS Integers, Sequences, FiniteSets, TLC

\* ------------------------------------------------------------------ bounds
MaxPairs == 2   \* (rep, def) pairs in one data page
MaxPages == 3   \* results the page source yields before it is exhausted
MaxRows  == 3   \* num_rows given to NestedIter::new
MaxChunk == 2   \* largest chunk_size = Some(c)
MaxUnionLen == 4
MaxDictRows == 2    \* rows of a DictionaryArray that is written
MaxDictValues == 2  \* values of its dictionary
MaxFsbRows == 3     \* rows of a FixedSizeBinary data page
MaxFsbSize == 2     \* bytes of a FixedSizeBinary value
MaxLevelPairs == 2  \* (rep, def) pairs of a page given to extend_offsets2
MaxAvroLen == 3     \* entries pushed to a builder of the Avro reader
MaxChunkPairs == 3  \* (rep, def) pairs of the pages appended to one chunk   \* slots appended to one GrowableUnion
MaxIterLen == 3
MaxIterCalls == 5
MaxPushes == 4      \* pushes into one DecodedState of the Binary decoder
MaxPageValues == 2  \* values or indices in the value stream of its page
MaxDrainPages == 2  \* pages of the source the iterator is drained over

\* usize::MAX of `chunk_size.unwrap_or(usize::MAX)`; it stands for 2^64 - 1,
\* every row count of the model is far below either number.
UsizeMax == 2147483647

None == <<>>
Some(x) == <<x>>

Min(a, b) == IF a <= b THEN a ELSE b

\* ------------------------------------------------- the Nested builders
NestedPrimitive(nullable) ==
    [kind |-> "Primitive", is_nullable |-> nullable, length |-> 0,
     offsets |-> <<>>, validity |-> <<>>]

NestedOptional ==
    [kind |-> "Optional", is_nullable |-> TRUE, length |-> 0,
     offsets |-> <<>>, validity |-> <<>>]

NestedValid ==
    [kind |-> "Valid", is_nullable |-> FALSE, length |-> 0,
     offsets |-> <<>>, validity |-> <<>>]

NestedStructValid ==
    [kind |-> "StructValid", is_nullable |-> FALSE, length |-> 0,
     offsets |-> <<>>, validity |-> <<>>]

NestedStruct ==
    [kind |-> "Struct", is_nullable |-> TRUE, length |-> 0,
     offsets |-> <<>>, validity |-> <<>>]

is_nullable(nest) == nest.is_nullable

is_repeated(nest) == nest.kind \in {"Optional", "Valid"}

is_required(nest) == nest.kind \in {"Struct", "StructValid"}

\* Nested::len
nested_len(nest) ==
    CASE nest.kind \in {"Primitive", "StructValid"} -> nest.length
      [] nest.kind \in {"Optional", "Valid"} -> Len(nest.offsets)
      [] nest.kind = "Struct" -> Len(nest.validity)

\* Nested::push
push(nest, value, is_valid) ==
    CASE nest.kind \in {"Primitive", "StructValid"} ->
            [nest EXCEPT !.length = @ + 1]
      [] nest.kind = "Optional" ->
            [nest EXCEPT !.offsets = Append(@, value),
                         !.validity = Append(@, is_valid)]
      [] nest.kind = "Valid" ->
            [nest EXCEPT !.offsets = Append(@, value)]
      [] nest.kind = "Struct" ->
            [nest EXCEPT !.validity = Append(@, is_valid)]

\* InitNested::{Primitive, List, Struct}(is_nullable)
Primitive(nullable) == [tag |-> "Primitive", nullable |-> nullable]
List(nullable) == [tag |-> "List", nullable |-> nullable]
Struct(nullable) == [tag |-> "Struct", nullable |-> nullable]

init_nested(init, capacity) ==
    [nested |->
        [i \in 1..Len(init) |->
            CASE init[i].tag = "Primitive" -> NestedPrimitive(init[i].nullable)
              [] init[i].tag = "List" ->
                    IF init[i].nullable THEN NestedOptional ELSE NestedValid
              [] init[i].tag = "Struct" ->
                    IF init[i].nullable THEN NestedStruct ELSE NestedStructValid]]

\* NestedState::len: the outermost builder counts the rows
state_len(nested_state) == nested_len(nested_state.nested[1])

\* ------------------------------------------- the Binary leaf decoder
\* ValuesDictionary / BinaryIter: the page's value stream; `dict` is the
\* dictionary the state was built against (<<>> for the plain states).
PageValues(kind, values, dictionary) ==
    [kind |-> kind, values |-> values, dict |-> dictionary]

\* deserialize_plain(buffer, num_values): the first num_values entries of the
\* plain-encoded buffer.
deserialize_plain(buffer, num_values) ==
    SubSeq(buffer, 1, Min(num_values, Len(buffer)))

deserialize_dict(dict_page) ==
    deserialize_plain(dict_page.buffer, dict_page.num_values)

IsDictEncoding(encoding) == encoding \in {"PlainDictionary", "RleDictionary"}

\* BinaryDecoder::build_state: <<"Ok", state>> or <<"Err", kind>>.  split_buffer
\* fails on a page whose buffer is malformed (buffer_ok = FALSE).
build_state(page, dict) ==
    CASE IsDictEncoding(page.encoding) /\ dict # None /\ ~page.is_filtered ->
            IF page.buffer_ok
            THEN <<"Ok", PageValues(IF page.is_optional THEN "OptionalDictionary"
                                    ELSE "RequiredDictionary", page.indices, dict[1])>>
            ELSE <<"Err", "OutOfSpec">>
      [] page.encoding = "Plain" /\ ~page.is_filtered ->
            IF page.buffer_ok
            THEN <<"Ok", PageValues(IF page.is_optional THEN "Optional"
                                    ELSE "Required", page.values, <<>>)>>
            ELSE <<"Err", "OutOfSpec">>
      [] OTHER -> <<"Err", "NotYetImplemented">>

\* NestedPage::try_new: the zipped (rep, def) iterator, or the split_buffer error
NestedPage_try_new(page) ==
    IF page.buffer_ok THEN <<"Ok", page.levels>> ELSE <<"Err", "OutOfSpec">>

\* DecodedState of the Binary decoder: (Binary<O>, MutableBitmap)
with_capacity(capacity) == [values |-> <<>>, validity |-> <<>>]

\* What stands for the value of a dictionary index that is out of range: the
\* indexing `dict[index]` panics
PanicValue == <<-1>>

\* page.next(): the next value of the stream and the rest, None at the end
NextValue(state) ==
    IF state.values = <<>> THEN None
    ELSE IF state.kind \in {"Optional", "Required"} THEN Some(Head(state.values))
    ELSE IF Head(state.values) >= Len(state.dict) THEN Some(PanicValue)
    ELSE Some(state.dict[Head(state.values) + 1])

\* The validity bit left out of the optional states
push_valid_without_bit(state, decoded) ==
    [state |-> [state EXCEPT !.values = IF @ = <<>> THEN <<>> ELSE Tail(@)],
     decoded |-> [decoded EXCEPT !.values =
                    Append(@, IF NextValue(state) = None THEN <<>>
                              ELSE NextValue(state)[1])]]

\* A value of one zero byte when the stream is exhausted
push_valid_zero_at_end(state, decoded) ==
    LET item == IF NextValue(state) = None THEN <<0>> ELSE NextValue(state)[1]
        rest == IF state.values = <<>> THEN <<>> ELSE Tail(state.values)
    IN [state |-> [state EXCEPT !.values = rest],
        decoded |->
            IF state.kind \in {"Optional", "OptionalDictionary"}
            THEN [values |-> Append(decoded.values, item),
                  validity |-> Append(decoded.validity, TRUE)]
            ELSE [decoded EXCEPT !.values = Append(@, item)]]

push_valid(state, decoded) ==
    LET item == IF NextValue(state) = None THEN <<>> ELSE NextValue(state)[1]
        rest == IF state.values = <<>> THEN <<>> ELSE Tail(state.values)
    IN [state |-> [state EXCEPT !.values = rest],
        decoded |->
            IF state.kind \in {"Optional", "OptionalDictionary"}
            THEN [values |-> Append(decoded.values, item),
                  validity |-> Append(decoded.validity, TRUE)]
            ELSE [decoded EXCEPT !.values = Append(@, item)]]

\* push_null that clears a bit and appends no value
push_null_bit_only(decoded) ==
    [decoded EXCEPT !.validity = Append(@, FALSE)]

push_null(decoded) ==
    [values |-> Append(decoded.values, <<>>),
     validity |-> Append(decoded.validity, FALSE)]

\* ------------------------------------------------------ extend_offsets2
\* cum_sum[depth] and cum_rep[depth] of extend_offsets2
RECURSIVE cum_sum(_, _)
cum_sum(nested, depth) ==
    IF depth = 1 THEN 0
    ELSE cum_sum(nested, depth - 1)
         + (IF is_nullable(nested[depth - 1]) THEN 1 ELSE 0)
         + (IF is_repeated(nested[depth - 1]) THEN 1 ELSE 0)

RECURSIVE cum_rep(_, _)
cum_rep(nested, depth) ==
    IF depth = 1 THEN 0
    ELSE cum_rep(nested, depth - 1)
         + (IF is_repeated(nested[depth - 1]) THEN 1 ELSE 0)

\* values_count left at zero before the loop
initial_values_count_zero(nested) == [i \in 1..Len(nested) |-> 0]

\* values_count as extend_offsets2 sets it before its loop
initial_values_count(nested) ==
    [i \in 1..Len(nested) |->
        IF i < Len(nested) THEN nested_len(nested[i + 1])
        ELSE nested_len(nested[Len(nested)])]

\* The leaf's own validity left out of the decision
leaf_push_at_right_level(at_leaf, right_level, leaf_valid, values_state, decoded) ==
    IF ~at_leaf THEN [state |-> values_state, decoded |-> decoded]
    ELSE IF right_level THEN push_valid(values_state, decoded)
    ELSE [state |-> values_state, decoded |-> push_null(decoded)]

\* The leaf part of a visited depth: `if depth == max_depth { .. }`
leaf_push(at_leaf, right_level, leaf_valid, values_state, decoded) ==
    IF ~at_leaf THEN [state |-> values_state, decoded |-> decoded]
    ELSE IF right_level /\ leaf_valid THEN push_valid(values_state, decoded)
    ELSE [state |-> values_state, decoded |-> push_null(decoded)]

\* is_required never carried to the depth below
after_push_no_carry(depth, st, pushed, is_valid, leaf) ==
    [nested |-> [st.nested EXCEPT ![depth] = pushed],
     values_count |-> IF depth > 1
                      THEN [st.values_count EXCEPT ![depth - 1] = nested_len(pushed)]
                      ELSE st.values_count,
     is_required |-> FALSE,
     values_state |-> leaf.state,
     decoded |-> leaf.decoded]

\* The state after `nest.push(length, is_valid)`, the update of values_count
\* and of is_required, and the leaf's push.
\* st = [nested, values_count, is_required, values_state, decoded]
after_push(depth, st, pushed, is_valid, leaf) ==
    [nested |-> [st.nested EXCEPT ![depth] = pushed],
     values_count |-> IF depth > 1
                      THEN [st.values_count EXCEPT ![depth - 1] = nested_len(pushed)]
                      ELSE st.values_count,
     is_required |-> is_required(st.nested[depth]) /\ ~is_valid,
     values_state |-> leaf.state,
     decoded |-> leaf.decoded]

\* Every push made as valid
visit_depth_always_valid(depth, st, right_level, is_valid, leaf_valid) ==
    after_push(depth, st,
               push(st.nested[depth], st.values_count[depth], TRUE),
               TRUE,
               leaf_push(depth = Len(st.nested), right_level, leaf_valid,
                         st.values_state, st.decoded))

\* The body of `if is_required || right_level { .. }`
visit_depth(depth, st, right_level, is_valid, leaf_valid) ==
    after_push(depth, st,
               push(st.nested[depth], st.values_count[depth], is_valid),
               is_valid,
               leaf_push(depth = Len(st.nested), right_level, leaf_valid,
                         st.values_state, st.decoded))

\* Every depth visited for every pair
at_depth_every_pair(depth, rep, def, st, cr, cs) ==
    visit_depth(depth, st, rep <= cr /\ def >= cs,
                is_nullable(st.nested[depth]) /\ def > cs,
                (def # cs) \/ ~is_nullable(st.nested[depth]))

\* One iteration of `for (depth, nest) in nested.iter_mut().enumerate()`, with
\* cr = cum_rep[depth] and cs = cum_sum[depth]
at_depth(depth, rep, def, st, cr, cs) ==
    IF st.is_required \/ (rep <= cr /\ def >= cs)
    THEN visit_depth(depth, st, rep <= cr /\ def >= cs,
                     is_nullable(st.nested[depth]) /\ def > cs,
                     (def # cs) \/ ~is_nullable(st.nested[depth]))
    ELSE st

\* The walk over the depths for one (rep, def) pair
RECURSIVE walk_depths(_, _, _, _)
walk_depths(depth, rep, def, st) ==
    IF depth > Len(st.nested) THEN st
    ELSE walk_depths(depth + 1, rep, def,
                     at_depth(depth, rep, def, st, cum_rep(st.nested, depth),
                              cum_sum(st.nested, depth)))

\* `page.iter.peek().map(|x| x.0).unwrap_or(0)`
peek_rep(levels) == IF levels = <<>> THEN 0 ELSE Head(levels)[1]

\* The `while let Some((rep, def)) = page.iter.next()` loop: pair_loop takes the
\* next pair, after_pair decides on the break.
RECURSIVE pair_loop(_, _, _, _)
RECURSIVE after_pair(_, _, _, _)
pair_loop(levels, st, rows, additional) ==
    IF levels = <<>> THEN [levels |-> levels, st |-> st]
    ELSE after_pair(Tail(levels),
                    walk_depths(1, Head(levels)[1], Head(levels)[2],
                                [st EXCEPT !.is_required = FALSE]),
                    IF Head(levels)[1] = 0 THEN rows + 1 ELSE rows,
                    additional)

\* The break taken at the quota without a look at the next pair
after_pair_at_quota(rest, walked, rows, additional) ==
    IF rows = additional
    THEN [levels |-> rest, st |-> walked]
    ELSE pair_loop(rest, walked, rows, additional)

after_pair(rest, walked, rows, additional) ==
    IF peek_rep(rest) = 0 /\ rows = additional
    THEN [levels |-> rest, st |-> walked]
    ELSE pair_loop(rest, walked, rows, additional)

\* What extend_offsets2 leaves: the rest of the page and of its values, and
\* the extended chunk
offsets_result(r) ==
    [levels |-> r.levels, values_state |-> r.st.values_state,
     nested |-> r.st.nested, decoded |-> r.st.decoded]

\* extend_offsets2(page, values_state, nested, decoded, decoder, additional)
extend_offsets2(levels, values_state, nested, decoded, additional) ==
    offsets_result(
        pair_loop(levels,
                  [nested |-> nested,
                   values_count |-> initial_values_count(nested),
                   is_required |-> FALSE,
                   values_state |-> values_state,
                   decoded |-> decoded],
                  0, additional))

\* --------------------------------------------------------------- extend
unwrap_or(option, default) == IF option = None THEN default ELSE option[1]

\* The chunk (NestedState, decoded) extend_offsets2 has extended
chunk_of(r) == <<[nested |-> r.nested], r.decoded>>

\* The `while page.len() > 0 && *remaining > 0` loop of extend: extend_loop
\* tests and starts a chunk, loop_pushed pushes it and goes round.
RECURSIVE extend_loop(_, _, _, _, _, _)
RECURSIVE loop_pushed(_, _, _, _, _)
extend_loop(levels, values_state, init, items, remaining, size) ==
    IF Len(levels) > 0 /\ remaining > 0
    THEN loop_pushed(extend_offsets2(levels, values_state,
                                     init_nested(init, Min(size, remaining)).nested,
                                     with_capacity(0), Min(size, remaining)),
                     init, items, remaining, size)
    ELSE [ok |-> TRUE, items |-> items, remaining |-> remaining]

\* The rows of a chunk started in the loop not taken off `remaining`; the loop
\* ends with the page
loop_pushed_keeps_remaining(r, init, items, remaining, size) ==
    IF r.levels = <<>>
    THEN [ok |-> TRUE, items |-> Append(items, chunk_of(r)), remaining |-> remaining]
    ELSE extend_loop(r.levels, r.values_state, init, Append(items, chunk_of(r)),
                     remaining - state_len(chunk_of(r)[1]), size)

loop_pushed(r, init, items, remaining, size) ==
    extend_loop(r.levels, r.values_state, init, Append(items, chunk_of(r)),
                remaining - state_len(chunk_of(r)[1]), size)

\* Mutant of first_pushed: `*remaining -= nested.len()`, the rows the chunk
\* already held are counted twice
first_pushed_counts_existing(r, existing, popped, init, remaining, size) ==
    extend_loop(r.levels, r.values_state, init, Append(popped, chunk_of(r)),
                remaining - state_len(chunk_of(r)[1]), size)

\* `*remaining -= nested.len() - existing; items.push_back((nested, decoded));`
\* and then the loop
first_pushed(r, existing, popped, init, remaining, size) ==
    extend_loop(r.levels, r.values_state, init, Append(popped, chunk_of(r)),
                remaining - (state_len(chunk_of(r)[1]) - existing), size)

\* Mutant of extend_back: `additional = chunk_size.min(*remaining)`, the rows the
\* popped chunk already holds are not taken off
extend_back_ignores_existing(levels, values_state, back, popped, init, remaining, size) ==
    first_pushed(extend_offsets2(levels, values_state, back[1].nested, back[2],
                                 Min(size, remaining)),
                 state_len(back[1]), popped, init, remaining, size)

\* Mutant of extend_back: the back of the queue is left where it is and the
\* page goes to a chunk of its own
extend_back_new_chunk(levels, values_state, back, popped, init, remaining, size) ==
    first_pushed(extend_offsets2(levels, values_state,
                                 init_nested(init, 0).nested, with_capacity(0),
                                 Min(size, remaining)),
                 0, Append(popped, back), init, remaining, size)

\* The first extend_offsets2 of extend, on `back`: the chunk popped from the
\* back of the queue, or a new one
extend_back(levels, values_state, back, popped, init, remaining, size) ==
    first_pushed(extend_offsets2(levels, values_state, back[1].nested, back[2],
                                 Min(size - state_len(back[1]), remaining)),
                 state_len(back[1]), popped, init, remaining, size)

\* extend after `build_state(page, dict)?` and `NestedPage::try_new(page)?`:
\* either error is returned before the queue is touched
extend_built(values_page, nested_page, init, items, remaining, chunk_size) ==
    IF values_page[1] = "Err" \/ nested_page[1] = "Err"
    THEN [ok |-> FALSE, items |-> items, remaining |-> remaining]
    ELSE extend_back(nested_page[2], values_page[2],
                     IF items # <<>> THEN items[Len(items)]
                     ELSE <<init_nested(init, unwrap_or(chunk_size, 0)),
                            with_capacity(0)>>,
                     IF items # <<>> THEN SubSeq(items, 1, Len(items) - 1)
                     ELSE <<>>,
                     init, remaining, unwrap_or(chunk_size, UsizeMax))

\* extend(page, init, items, dict, remaining, decoder, chunk_size): Ok(()) with
\* the new queue and `remaining`, or the error
extend(page, init, items, dict, remaining, chunk_size) ==
    extend_built(build_state(page, dict), NestedPage_try_new(page), init, items,
                 remaining, chunk_size)

\* ----------------------------------------------------------------- next
\* What one call of `next` returns and leaves behind.  `polled` is what
\* iter.next() yields if the call reaches it; `read` says whether it did.
Outcome(kind, chunk, items, dict, remaining, read) ==
    [kind |-> kind, chunk |-> chunk, items |-> items, dict |-> dict,
     remaining |-> remaining, read |-> read]

\* Mutant of install_dict: a dictionary already held is kept
install_dict_once(dict, dict_page) ==
    IF dict = None THEN Some(deserialize_dict(dict_page)) ELSE dict

\* `Page::Dict(dict_page) => { *dict = Some(decoder.deserialize_dict(dict_page)); .. }`
install_dict(dict, dict_page) == Some(deserialize_dict(dict_page))

\* Mutant of pop_or_none: an empty queue asks the caller to pull again
pop_or_none_pulls_again(items, dict, remaining, read) ==
    IF items # <<>>
    THEN Outcome("SomeOk", Some(Head(items)), Tail(items), dict, remaining, read)
    ELSE Outcome("More", None, items, dict, remaining, read)

\* Mutant of pop_or_none: None without looking at the queue
pop_or_none_forgets(items, dict, remaining, read) ==
    Outcome("None", None, items, dict, remaining, read)

\* `items.pop_front()` returned: the `Ok(None)` arm and the `*remaining == 0`
\* return give the queued chunk, or None
pop_or_none(items, dict, remaining, read) ==
    IF items # <<>>
    THEN Outcome("SomeOk", Some(Head(items)), Tail(items), dict, remaining, read)
    ELSE Outcome("None", None, items, dict, remaining, read)

\* Mutant of after_extend: the error of extend is dropped and the caller is
\* told to pull again
after_extend_swallows(e, items, dict, remaining, chunk_size) ==
    IF ~e.ok
    THEN Outcome("More", None, items, dict, remaining, TRUE)
    ELSE IF Len(e.items) = 1
            /\ state_len(e.items[1][1]) < unwrap_or(chunk_size, UsizeMax)
    THEN Outcome("More", None, e.items, dict, e.remaining, TRUE)
    ELSE Outcome("SomeOk", Some(Head(e.items)), Tail(e.items), dict,
                 e.remaining, TRUE)

\* `next` after its call of extend, which gave e
after_extend(e, items, dict, remaining, chunk_size) ==
    IF ~e.ok
    THEN Outcome("SomeErr", None, items, dict, remaining, TRUE)
    ELSE IF Len(e.items) = 1
            /\ state_len(e.items[1][1]) < unwrap_or(chunk_size, UsizeMax)
    THEN Outcome("More", None, e.items, dict, e.remaining, TRUE)
    ELSE Outcome("SomeOk", Some(Head(e.items)), Tail(e.items), dict,
                 e.remaining, TRUE)

\* The `Ok(Some(Page::Data(page)))` arm
on_data_page(page, items, dict, remaining, init, chunk_size) ==
    after_extend(extend(page, init, items, dict, remaining, chunk_size),
                 items, dict, remaining, chunk_size)

\* Mutant of next: without the `if *remaining == 0` return
next_polls_when_done(polled, items, dict, remaining, init, chunk_size) ==
    IF Len(items) > 1
    THEN Outcome("SomeOk", Some(Head(items)), Tail(items), dict, remaining, FALSE)
    ELSE IF Len(items) = 1
            /\ state_len(items[1][1]) = unwrap_or(chunk_size, UsizeMax)
    THEN Outcome("SomeOk", Some(Head(items)), Tail(items), dict, remaining, FALSE)
    ELSE CASE polled.tag = "Err" ->
                Outcome("SomeErr", None, items, dict, remaining, TRUE)
           [] polled.tag = "End" ->
                pop_or_none(items, dict, remaining, TRUE)
           [] polled.tag = "Dict" ->
                Outcome("More", None, items, install_dict(dict, polled),
                        remaining, TRUE)
           [] polled.tag = "Data" ->
                on_data_page(polled, items, dict, remaining, init, chunk_size)

\* next(iter, items, dict, remaining, init, chunk_size, decoder)
next(polled, items, dict, remaining, init, chunk_size) ==
    IF Len(items) > 1
    THEN Outcome("SomeOk", Some(Head(items)), Tail(items), dict, remaining, FALSE)
    ELSE IF Len(items) = 1
            /\ state_len(items[1][1]) = unwrap_or(chunk_size, UsizeMax)
    THEN Outcome("SomeOk", Some(Head(items)), Tail(items), dict, remaining, FALSE)
    ELSE IF remaining = 0
    THEN pop_or_none(items, dict, remaining, FALSE)
    ELSE CASE polled.tag = "Err" ->
                Outcome("SomeErr", None, items, dict, remaining, TRUE)
           [] polled.tag = "End" ->
                pop_or_none(items, dict, remaining, TRUE)
           [] polled.tag = "Dict" ->
                Outcome("More", None, items, install_dict(dict, polled),
                        remaining, TRUE)
           [] polled.tag = "Data" ->
                on_data_page(polled, items, dict, remaining, init, chunk_size)

\* ------------------------------------------------------ the page source
\* The column of the model: a nullable list of nullable binary values,
\* max_rep_level 1 and max_def_level 3.
ListOfBinary == <<List(TRUE), Primitive(TRUE)>>

\* (rep, def): the first value of a row, a further value of the row
Pairs == {<<0, 3>>, <<1, 3>>}

\* Pages with a null list as a row: alone, after a row with a value, and a
\* page of three such rows
NullRowSeqs ==
    {<< <<0, 0>> >>, << <<0, 3>>, <<0, 0>> >>, << <<0, 0>>, <<0, 0>>, <<0, 0>> >>}

LevelSeqs == UNION {[1..n -> Pairs] : n \in 0..MaxPairs} \cup NullRowSeqs

\* The value stream of a data page: plain values <<1>>, <<2>>, ...; dictionary
\* indices 0, 1, 0, ...
PlainStream == [i \in 1..MaxPairs |-> <<i>>]
IndexStream == [i \in 1..MaxPairs |-> (i - 1) % 2]

DataPage(encoding, is_optional, is_filtered, buffer_ok, levels) ==
    [tag |-> "Data", encoding |-> encoding, is_optional |-> is_optional,
     is_filtered |-> is_filtered, buffer_ok |-> buffer_ok, levels |-> levels,
     values |-> IF IsDictEncoding(encoding) THEN <<>> ELSE PlainStream,
     indices |-> IF IsDictEncoding(encoding) THEN IndexStream ELSE <<>>]

DictPages ==
    {[tag |-> "Dict", buffer |-> <<<<11>>, <<12>>>>, num_values |-> 2],
     [tag |-> "Dict", buffer |-> <<<<21>>, <<22>>, <<23>>>>, num_values |-> 2]}

GoodDataPages ==
    {DataPage(e, TRUE, FALSE, TRUE, l) : e \in {"Plain", "RleDictionary"},
                                         l \in LevelSeqs}

\* Pages build_state or NestedPage::try_new rejects
BadDataPages ==
    {DataPage("Plain", TRUE, TRUE, TRUE, <<<<0, 3>>>>),
     DataPage("DeltaLengthByteArray", TRUE, FALSE, TRUE, <<<<0, 3>>>>),
     DataPage("Plain", TRUE, FALSE, FALSE, <<<<0, 3>>>>)}

DataPages == GoodDataPages \cup BadDataPages

SourceErr == [tag |-> "Err"]
SourceEnd == [tag |-> "End"]

\* rows of a page: a row starts at every pair with rep = 0
RECURSIVE RowsOf(_)
RowsOf(levels) ==
    IF levels = <<>> THEN 0
    ELSE (IF Head(levels)[1] = 0 THEN 1 ELSE 0) + RowsOf(Tail(levels))

\* -------------------------------------------------------- GrowableUnion
\* Growable::extend(index, start, len) of a child builder made by
\* make_growable: it appends the elements start..start+len of its source
child_extend(builder, source_field, start, len) ==
    builder \o SubSeq(source_field, start + 1, start + len)

\* GrowableUnion::new(arrays, capacity)
GrowableUnion_new(arrays) ==
    [types |-> <<>>,
     offsets |-> IF arrays[1].offsets # None THEN Some(<<>>) ELSE None,
     fields |-> [f \in 1..Len(arrays[1].fields) |-> <<>>]]

\* `for (&type_, &offset) in types.iter().zip(offsets.iter())`
RECURSIVE extend_dense_fields(_, _, _, _)
extend_dense_fields(fields, array, types, offsets) ==
    IF types = <<>> \/ offsets = <<>> THEN fields
    ELSE extend_dense_fields(
            [fields EXCEPT ![Head(types) + 1] =
                child_extend(@, array.fields[Head(types) + 1], Head(offsets), 1)],
            array, Tail(types), Tail(offsets))

\* The dense branch of GrowableUnion::extend
extend_dense(g, array, start, len) ==
    [types |-> g.types \o SubSeq(array.types, start + 1, start + len),
     offsets |-> Some(g.offsets[1]
                      \o SubSeq(array.offsets[1], start + 1, start + len)),
     fields |-> extend_dense_fields(g.fields, array,
                    SubSeq(array.types, start + 1, start + len),
                    SubSeq(array.offsets[1], start + 1, start + len))]

\* Mutant of extend_sparse: as the dense branch does, one element for each
\* child
extend_sparse_one_each(g, array, start, len) ==
    [types |-> g.types \o SubSeq(array.types, start + 1, start + len),
     offsets |-> None,
     fields |-> [f \in 1..Len(g.fields) |->
                    child_extend(g.fields[f], array.fields[f], start,
                                 Min(len, 1))]]

\* The sparse branch of GrowableUnion::extend
extend_sparse(g, array, start, len) ==
    [types |-> g.types \o SubSeq(array.types, start + 1, start + len),
     offsets |-> None,
     fields |-> [f \in 1..Len(g.fields) |->
                    child_extend(g.fields[f], array.fields[f], start, len)]]

\* Mutant of GrowableUnion_extend: `self.arrays[0]` whatever the index
GrowableUnion_extend_first(g, arrays, index, start, len) ==
    IF g.offsets # None
    THEN extend_dense(g, arrays[1], start, len)
    ELSE extend_sparse(g, arrays[1], start, len)

\* GrowableUnion::extend(index, start, len)
GrowableUnion_extend(g, arrays, index, start, len) ==
    IF g.offsets # None
    THEN extend_dense(g, arrays[index + 1], start, len)
    ELSE extend_sparse(g, arrays[index + 1], start, len)

\* GrowableUnion::to: the UnionArray of the builder's types, fields and offsets
GrowableUnion_to(g) ==
    [types |-> g.types, fields |-> g.fields, offsets |-> g.offsets]

\* Valid dense unions; the first is the source of the worked example
DenseSources ==
    << [types |-> <<0, 1, 0>>, offsets |-> Some(<<0, 0, 1>>),
        fields |-> << <<"10", "20">>, <<"x">> >>],
       [types |-> <<1, 0, 1>>, offsets |-> Some(<<0, 0, 1>>),
        fields |-> << <<"30">>, <<"y", "z">> >>] >>

\* Valid sparse unions: every field as long as the type ids
SparseSources ==
    << [types |-> <<0, 1, 0>>, offsets |-> None,
        fields |-> << <<"10", "11", "12">>, <<"x0", "x1", "x2">> >>],
       [types |-> <<1, 1>>, offsets |-> None,
        fields |-> << <<"30", "31">>, <<"y0", "y1">> >>] >>

\* --------------------------------------------------------------- state
VARIABLES
    items,          \* NestedIter.items: the queue of (NestedState, decoded)
    dict,           \* NestedIter.dict
    remaining,      \* NestedIter.remaining
    num_rows,       \* num_rows given to NestedIter::new
    chunk_size,     \* NestedIter.chunk_size
    pagesLeft,      \* results the page source yields before Ok(None)
    ret,            \* what the last call of `next` returned and polled
    returnedRows,   \* history: rows of the chunks returned so far
    rowsSeen,       \* history: rows of the data pages read, capped at num_rows
    erred,          \* history: some call returned Some(Err)
    shortReturned,  \* history: a chunk of fewer than chunk_size rows was returned
    lastDictPage,   \* history: the last Dict page the source yielded
    uArrays,        \* GrowableUnion.arrays
    growable,       \* GrowableUnion: types, offsets, fields
    uLast,          \* the last call on the GrowableUnion and its arguments
    uSlots,         \* history: the (source, slot) each builder slot was copied from
    uArray,         \* the UnionArray as_box returned, None before
    args,           \* the arguments of the function called on its own
    result,         \* what that function returned, None before the call
    yielded         \* what the returned iterator or decoder has produced so far

iterVars == <<items, dict, remaining, num_rows, chunk_size, pagesLeft, ret,
              returnedRows, rowsSeen, erred, shortReturned, lastDictPage>>

unionVars == <<uArrays, growable, uLast, uSlots, uArray>>

callVars == <<args, result, yielded>>

vars == <<iterVars, unionVars, callVars>>

ChunkSizes == {None} \cup {Some(c) : c \in 1..MaxChunk}

\* No GrowableUnion in the behaviours of the page decoder
NoUnion ==
    /\ uArrays = <<>>
    /\ growable = [types |-> <<>>, offsets |-> None, fields |-> <<>>]
    /\ uLast = [op |-> "none", index |-> 0, start |-> 0, len |-> 0]
    /\ uSlots = <<>>
    /\ uArray = None

\* No function called on its own in the behaviours of the page decoder and of
\* the GrowableUnion
NoCall ==
    /\ args = [op |-> "none"]
    /\ result = None
    /\ yielded = <<>>

\* NestedIter::new
NewIter(rows, size, pages) ==
    /\ items = <<>>
    /\ dict = None
    /\ num_rows = rows
    /\ remaining = rows
    /\ chunk_size = size
    /\ pagesLeft = pages
    /\ ret = [kind |-> "New", chunk |-> None, read |-> "NotRead", raised |-> FALSE]
    /\ returnedRows = 0
    /\ rowsSeen = 0
    /\ erred = FALSE
    /\ shortReturned = FALSE
    /\ lastDictPage = None

Init ==
    /\ \E rows \in 0..MaxRows, size \in ChunkSizes, pages \in 0..MaxPages :
            NewIter(rows, size, pages)
    /\ NoUnion
    /\ NoCall

\* rows of the chunk a call returned
returned_rows(r) == IF r.kind = "SomeOk" THEN state_len(r.chunk[1][1]) ELSE 0

\* Whether build_state or NestedPage::try_new raises on a page
raises(page, held) ==
    build_state(page, held)[1] = "Err" \/ NestedPage_try_new(page)[1] = "Err"

\* The step of a call of `next` with outcome r, whose iter.next(), if
\* reached, yielded `polled`
Returned(r, polled) ==
    /\ items' = r.items
    /\ dict' = r.dict
    /\ remaining' = r.remaining
    /\ pagesLeft' = IF r.read /\ pagesLeft > 0 THEN pagesLeft - 1 ELSE pagesLeft
    /\ ret' = [kind |-> r.kind, chunk |-> r.chunk,
               read |-> IF r.read THEN polled.tag ELSE "NotRead",
               raised |-> r.read /\ polled.tag = "Data" /\ raises(polled, dict)]
    /\ returnedRows' = returnedRows + returned_rows(r)
    /\ rowsSeen' = IF r.read /\ polled.tag = "Data"
                   THEN Min(num_rows, rowsSeen + RowsOf(polled.levels))
                   ELSE rowsSeen
    /\ erred' = (erred \/ r.kind = "SomeErr")
    /\ shortReturned' = (shortReturned
                         \/ (r.kind = "SomeOk" /\ chunk_size # None
                             /\ returned_rows(r) < chunk_size[1]))
    /\ lastDictPage' = IF r.read /\ polled.tag = "Dict" THEN Some(polled)
                       ELSE lastDictPage
    /\ UNCHANGED <<num_rows, chunk_size>>
    /\ UNCHANGED <<unionVars, callVars>>

\* One call of `next` whose iter.next(), if reached, yields `polled`
Call(polled) ==
    Returned(next(polled, items, dict, remaining, ListOfBinary, chunk_size), polled)

\* Whether a call of `next` in this state reaches `match iter.next()`
polls == next(SourceEnd, items, dict, remaining, ListOfBinary, chunk_size).read

\* `next` returns from the queue (or None) without polling the source
NextQueued ==
    /\ ~polls
    /\ Call(SourceEnd)

\* `next` polls the source, which fails
PollErr ==
    /\ polls
    /\ pagesLeft > 0
    /\ Call(SourceErr)

\* `next` polls the source, which is exhausted
PollEnd ==
    /\ polls
    /\ pagesLeft = 0
    /\ Call(SourceEnd)

\* `next` polls the source, which yields a dictionary page
PollDict ==
    /\ polls
    /\ pagesLeft > 0
    /\ \E page \in DictPages : Call(page)

\* `next` polls the source, which yields a data page
PollData ==
    /\ polls
    /\ pagesLeft > 0
    /\ \E page \in DataPages : Call(page)

Next == NextQueued \/ PollErr \/ PollEnd \/ PollDict \/ PollData

Spec == Init /\ [][Next]_vars

\* ------------------------------------- a page source that never fails
\* NestedIter::new over a source of at most MaxDrainPages pages
DrainInit ==
    /\ \E rows \in 0..MaxRows, size \in ChunkSizes, pages \in 0..MaxDrainPages :
            NewIter(rows, size, pages)
    /\ NoUnion
    /\ NoCall

\* The calls of `next` over a source that yields pages and then Ok(None)
DrainNext == NextQueued \/ PollEnd \/ PollDict \/ PollData

\* NestedIter::next calls `next` again on More, and the consumer of the
\* iterator calls NestedIter::next until it returns None: a call that can be
\* made is made
DrainSpec == DrainInit /\ [][DrainNext]_vars /\ WF_vars(DrainNext)

\* ------------------------------------------- GrowableUnion behaviours
\* No page decoder in the behaviours of the GrowableUnion
NoIter == NewIter(0, None, 0)

\* GrowableUnion::new over dense or over sparse sources
UnionInit ==
    /\ NoIter
    /\ NoCall
    /\ uArrays \in {DenseSources, SparseSources}
    /\ growable = GrowableUnion_new(uArrays)
    /\ uLast = [op |-> "new", index |-> 0, start |-> 0, len |-> 0]
    /\ uSlots = <<>>
    /\ uArray = None

\* extend(index, start, len) with start + len inside the source (the slices of
\* extend panic otherwise, before anything is appended)
UnionExtend ==
    /\ uArray = None
    /\ \E index \in 0..(Len(uArrays) - 1) :
        \E start \in 0..Len(uArrays[index + 1].types) :
          \E len \in 0..(Len(uArrays[index + 1].types) - start) :
            /\ Len(growable.types) + len <= MaxUnionLen
            /\ growable' = GrowableUnion_extend(growable, uArrays, index, start, len)
            /\ uLast' = [op |-> "extend", index |-> index, start |-> start,
                         len |-> len]
            /\ uSlots' = uSlots \o [j \in 1..len |-> <<index, start + j - 1>>]
    /\ UNCHANGED <<uArrays, uArray>>
    /\ UNCHANGED <<iterVars, callVars>>

\* as_box / as_arc: `to` takes the builder's types, fields and offsets
UnionFinish ==
    /\ uArray = None
    /\ uArray' = Some(GrowableUnion_to(growable))
    /\ growable' = [types |-> <<>>, offsets |-> None, fields |-> <<>>]
    /\ uLast' = [op |-> "to", index |-> 0, start |-> 0, len |-> 0]
    /\ UNCHANGED <<uArrays, uSlots>>
    /\ UNCHANGED <<iterVars, callVars>>

UnionNext == UnionExtend \/ UnionFinish

UnionSpec == UnionInit /\ [][UnionNext]_vars

\* ------------------------------------------------ claims: the page decoder
Rows(chunk) == state_len(chunk[1])

RECURSIVE QueuedRows(_)
QueuedRows(queue) ==
    IF queue = <<>> THEN 0 ELSE Rows(Head(queue)) + QueuedRows(Tail(queue))

\* The leaf values of the chunks of a queue, front first
RECURSIVE AllValues(_)
AllValues(queue) ==
    IF queue = <<>> THEN <<>> ELSE Head(queue)[2].values \o AllValues(Tail(queue))

IsPrefix(a, b) == Len(a) <= Len(b) /\ SubSeq(b, 1, Len(a)) = a

Range(f) == {f[i] : i \in DOMAIN f}

\* The chunk a call returned, if any, followed by the queue it left
Delivered(r, queue) == IF r.kind = "SomeOk" THEN r.chunk \o queue ELSE queue

\* C1: when the iterator has returned None after no error, and the data pages
\* it was given hold at least num_rows rows, the rows of the chunks it
\* returned sum to exactly num_rows.
ChunkSumIsNumRows ==
    (ret.kind = "None" /\ ~erred /\ rowsSeen >= num_rows)
        => returnedRows = num_rows

\* Three rows read in chunks of two, to the final None
ChunkSumReached ==
    /\ ret.kind = "None"
    /\ ~erred
    /\ chunk_size = Some(2)
    /\ num_rows = 3
    /\ rowsSeen >= num_rows
    /\ returnedRows = 3

\* C2: with chunk_size = Some(c) a returned chunk has at most c rows; once a
\* chunk of fewer than c rows was returned no further chunk is returned; and a
\* data page read while a partial chunk is queued extends that chunk, to
\* exactly c rows if the page starts any further chunk.
ChunksAreFull ==
    [][/\ (ret'.kind = "SomeOk" /\ chunk_size # None)
            => Rows(ret'.chunk[1]) <= chunk_size[1]
       /\ shortReturned => ret'.kind # "SomeOk"
       /\ (chunk_size # None /\ items # <<>> /\ ret'.read = "Data"
           /\ ret'.kind # "SomeErr")
            => /\ IsPrefix(items[1][2].values,
                           Delivered(ret', items')[1][2].values)
               /\ Rows(Delivered(ret', items')[1]) >= Rows(items[1])
               /\ Len(Delivered(ret', items')) > 1
                    => Rows(Delivered(ret', items')[1]) = chunk_size[1]]_vars

\* A chunk of two rows whose rows come from two pages (each page's plain values
\* start at <<1>>), returned while a further chunk is queued
ChunkCompletedByNextPage ==
    /\ chunk_size = Some(2)
    /\ ret.kind = "SomeOk"
    /\ ret.read = "Data"
    /\ Rows(ret.chunk[1]) = 2
    /\ ret.chunk[1][2].values = << <<1>>, <<1>> >>
    /\ items # <<>>

\* C3: a call returns the front chunk without polling the source when more
\* than one chunk is queued or the only one has chunk_size rows; a call polls
\* the source at most once; and no call polls it once `remaining` is 0.
PollsOnlyWhenNeeded ==
    [][/\ (\/ Len(items) > 1
           \/ (Len(items) = 1 /\ chunk_size # None
               /\ Rows(items[1]) = chunk_size[1]))
            => /\ ret'.read = "NotRead"
               /\ pagesLeft' = pagesLeft
               /\ ret'.kind = "SomeOk"
               /\ ret'.chunk = Some(Head(items))
               /\ items' = Tail(items)
       /\ pagesLeft - pagesLeft' \in {0, 1}
       /\ remaining = 0 => (ret'.read = "NotRead" /\ pagesLeft' = pagesLeft)]_vars

\* A chunk returned from a queue of two while the source has pages left
ReturnedFromQueue ==
    /\ ret.kind = "SomeOk"
    /\ ret.read = "NotRead"
    /\ items # <<>>
    /\ pagesLeft > 0

\* C4: a call that polls a Dict page returns More, leaves the queue and
\* `remaining` as they were and holds deserialize_dict of that page as the
\* dictionary; no other call changes the dictionary; and a value a data page
\* adds that comes from a dictionary comes from the last Dict page.
DictPageInstalls ==
    [][/\ ret'.read = "Dict"
            => /\ ret'.kind = "More"
               /\ items' = items
               /\ remaining' = remaining
               /\ lastDictPage' # None
               /\ dict' = Some(deserialize_dict(lastDictPage'[1]))
       /\ ret'.read # "Dict" => dict' = dict
       /\ (ret'.read = "Data" /\ ret'.kind # "SomeErr")
            => \A i \in (Len(AllValues(items)) + 1)
                        ..Len(AllValues(Delivered(ret', items'))) :
                 AllValues(Delivered(ret', items'))[i]
                    \in UNION {Range(d.buffer) : d \in DictPages}
                 => /\ lastDictPage # None
                    /\ AllValues(Delivered(ret', items'))[i]
                        \in Range(deserialize_dict(lastDictPage[1]))]_vars

\* A chunk with a value of the second dictionary page
DecodedAgainstDict ==
    /\ ret.kind = "SomeOk"
    /\ ret.read = "Data"
    /\ lastDictPage # None
    /\ lastDictPage[1].buffer[1] = <<21>>
    /\ <<21>> \in Range(ret.chunk[1][2].values)

\* C5: a call that finds the source exhausted returns the queued chunk if there
\* is one, else None; the call after one that returned the queued chunk at the
\* end of the source returns None; and no call takes a row or a value out of
\* the queue without returning it.
EndOfInputFlushes ==
    [][/\ ret'.read = "End"
            => IF items # <<>>
               THEN /\ ret'.kind = "SomeOk"
                    /\ ret'.chunk = Some(Head(items))
                    /\ items' = Tail(items)
               ELSE ret'.kind = "None"
       /\ (ret.read = "End" /\ ret.kind = "SomeOk") => ret'.kind = "None"
       /\ QueuedRows(Delivered(ret', items')) >= QueuedRows(items)
       /\ IsPrefix(AllValues(items), AllValues(Delivered(ret', items')))]_vars

\* A partial chunk returned at the end of the source, rows still owed
PartialReturnedAtEnd ==
    /\ ret.read = "End"
    /\ ret.kind = "SomeOk"
    /\ Rows(ret.chunk[1]) >= 1
    /\ remaining > 0

\* C6: a call whose poll of the source fails, or whose data page makes
\* build_state or NestedPage::try_new fail, returns Some(Err) and leaves the
\* queue, the dictionary and `remaining` as they were.
ErrorsSurface ==
    [][(ret'.read = "Err" \/ ret'.raised)
        => /\ ret'.kind = "SomeErr"
           /\ items' = items
           /\ dict' = dict
           /\ remaining' = remaining]_vars

\* An error raised by a data page while a partial chunk is queued and a
\* dictionary is held
ErrorWithQueuedChunk ==
    /\ ret.kind = "SomeErr"
    /\ ret.raised
    /\ items # <<>>
    /\ dict # None

\* ------------------------------------------------ claims: GrowableUnion
\* The elements of child t that slots s..s+n-1 of the dense union a refer to,
\* in slot order
RECURSIVE Picked(_, _, _, _)
Picked(a, t, s, n) ==
    IF n = 0 THEN <<>>
    ELSE Picked(a, t, s, n - 1)
         \o (IF a.types[s + n] = t
             THEN <<a.fields[t + 1][a.offsets[1][s + n] + 1]>>
             ELSE <<>>)

\* The element slot `slot` (from 0) of the dense union a stands for
LogicalElement(a, slot) == a.fields[a.types[slot + 1] + 1][a.offsets[1][slot + 1] + 1]

\* C7: extend(i, start, len) on a dense builder appends the type ids and the
\* offsets of slots start..start+len of source i as they are, and to each child
\* t the elements of source i's child t at the offsets of the copied slots of
\* type t, in order; extend(0, 1, 2) of the source with types [0,1,0], offsets
\* [0,0,1], child0 [10,20], child1 ["x"] into the empty builder gives types
\* [1,0], offsets [0,1], child0 [20], child1 ["x"].
DenseExtendCopies ==
    [][(uLast'.op = "extend" /\ growable.offsets # None)
        => /\ growable'.types
                = growable.types
                  \o [j \in 1..uLast'.len |->
                        uArrays[uLast'.index + 1].types[uLast'.start + j]]
           /\ growable'.offsets
                = Some(growable.offsets[1]
                       \o [j \in 1..uLast'.len |->
                             uArrays[uLast'.index + 1].offsets[1][uLast'.start + j]])
           /\ \A t \in 1..Len(growable.fields) :
                growable'.fields[t]
                    = growable.fields[t]
                      \o Picked(uArrays[uLast'.index + 1], t - 1,
                                uLast'.start, uLast'.len)
           /\ (/\ growable.types = <<>>
               /\ uLast' = [op |-> "extend", index |-> 0, start |-> 1, len |-> 2])
                => growable' = [types |-> <<1, 0>>, offsets |-> Some(<<0, 1>>),
                                fields |-> << <<"20">>, <<"x">> >>]]_vars

\* The builder after extend(0, 1, 2) of the worked example
DenseExampleExtended ==
    /\ uLast = [op |-> "extend", index |-> 0, start |-> 1, len |-> 2]
    /\ uArrays = DenseSources
    /\ growable.types = <<1, 0>>
    /\ growable.offsets = Some(<<0, 1>>)
    /\ growable.fields = << <<"20">>, <<"x">> >>

\* C8: in a dense builder every slot j refers to an element of its child (the
\* element of child types[j] at offsets[j]) and that element is the one the
\* source slot it was copied from stands for.
DenseSlotsMatchSources ==
    (uArray = None /\ growable.offsets # None)
        => \A j \in 1..Len(growable.types) :
            /\ growable.offsets[1][j] + 1
                \in 1..Len(growable.fields[growable.types[j] + 1])
            /\ growable.fields[growable.types[j] + 1][growable.offsets[1][j] + 1]
                = LogicalElement(uArrays[uSlots[j][1] + 1], uSlots[j][2])

\* C9: in the dense UnionArray that `to` builds, the offset of every slot is
\* inside the child its type id selects.
FinalizedOffsetsInRange ==
    (uArray # None /\ uArray[1].offsets # None)
        => \A i \in 1..Len(uArray[1].types) :
            /\ 0 <= uArray[1].offsets[1][i]
            /\ uArray[1].offsets[1][i]
                < Len(uArray[1].fields[uArray[1].types[i] + 1])

\* C10: in a sparse builder every child is as long as the type ids, and there
\* are no offsets.
SparseChildrenAligned ==
    (uArray = None /\ uArrays = SparseSources)
        => /\ growable.offsets = None
           /\ \A f \in 1..Len(growable.fields) :
                Len(growable.fields[f]) = Len(growable.types)

\* A sparse builder of four slots, the last extend from the second source
SparseExtendedTwice ==
    /\ uArrays = SparseSources
    /\ uArray = None
    /\ uLast.op = "extend"
    /\ uLast.index = 1
    /\ uLast.len = 2
    /\ Len(growable.types) = 4
    /\ growable.fields[2] = <<"x0", "x1", "y0", "y1">>

\* ------------------------------------- writing a DictionaryArray to pages
\* A DictionaryArray is [keys, keys_validity, values, values_validity,
\* value_type]: `keys` are the key values of all rows, null rows included.

\* DictionaryArray::keys_values_iter: the key of every row, whatever its
\* validity
keys_values_iter(array) == array.keys

\* DictionaryArray::keys_iter: None for a row whose key is null
keys_iter(array) ==
    [i \in 1..Len(array.keys) |->
        IF array.keys_validity # None /\ ~array.keys_validity[1][i]
        THEN None ELSE Some(array.keys[i])]

\* Bitmap::unset_bits
unset_bits(bitmap) == Cardinality({i \in 1..Len(bitmap) : ~bitmap[i]})

\* utils::get_bit_width: the bits needed to represent max
RECURSIVE get_bit_width(_)
get_bit_width(max) == IF max = 0 THEN 0 ELSE 1 + get_bit_width(max \div 2)

\* `keys.clone().max().unwrap_or(0)`
RECURSIVE max_or_0(_)
max_or_0(keys) ==
    IF keys = <<>> THEN 0
    ELSE IF Head(keys) > max_or_0(Tail(keys)) THEN Head(keys)
    ELSE max_or_0(Tail(keys))

\* normalized_validity
normalized_validity(array) ==
    IF array.keys_validity = None /\ array.values_validity = None THEN None
    ELSE IF array.keys_validity = None THEN array.values_validity
    ELSE IF array.values_validity = None THEN array.keys_validity
    ELSE Some([i \in 1..Len(array.keys) |->
                IF keys_iter(array)[i] = None THEN FALSE
                ELSE array.values_validity[1][keys_iter(array)[i][1] + 1]])

\* `keys.zip(validity.iter()).filter_map(|(key, is_valid)| is_valid.then(|| key))`
RECURSIVE zip_filter(_, _)
zip_filter(keys, validity) ==
    IF keys = <<>> \/ validity = <<>> THEN <<>>
    ELSE (IF Head(validity) THEN <<Head(keys)>> ELSE <<>>)
         \o zip_filter(Tail(keys), Tail(validity))

\* What serialize_keys_values appends for the keys that it encodes, which are
\* declared to the encoder as `declared` elements
keys_written(keys, declared, width_of) ==
    [bit_width |-> get_bit_width(max_or_0(width_of)),
     indices |-> keys,
     declared |-> declared]

\* Mutant of serialize_keys_values: the bit width is that of the largest key of
\* the array, encoded or not
serialize_keys_values_all_keys(array, validity) ==
    IF validity # None
    THEN keys_written(zip_filter(keys_values_iter(array), validity[1]),
                      Len(array.keys) - unset_bits(validity[1]),
                      keys_values_iter(array))
    ELSE keys_written(keys_values_iter(array), Len(array.keys),
                      keys_values_iter(array))

\* serialize_keys_values
serialize_keys_values(array, validity) ==
    IF validity # None
    THEN keys_written(zip_filter(keys_values_iter(array), validity[1]),
                      Len(array.keys) - unset_bits(validity[1]),
                      zip_filter(keys_values_iter(array), validity[1]))
    ELSE keys_written(keys_values_iter(array), Len(array.keys),
                      keys_values_iter(array))

\* array.null_count() of a DictionaryArray: null is encoded in the keys'
\* validity
DictionaryArray_null_count(array) ==
    IF array.keys_validity = None THEN 0 ELSE unset_bits(array.keys_validity[1])

\* utils::build_plain_page of the data page, whose Result is page_ok
build_plain_page(written, validity, nvalues, nrows, null_count, encoding, page_ok) ==
    IF ~page_ok THEN <<"Err", "OutOfSpec">>
    ELSE <<"Ok", [tag |-> "Data", encoding |-> encoding,
                  num_values |-> nvalues, num_rows |-> nrows,
                  null_count |-> null_count,
                  validity |-> validity, bit_width |-> written.bit_width,
                  indices |-> written.indices, declared |-> written.declared]>>

\* serialize_keys of a column that is not nested (`nested.len() == 1`)
serialize_keys(array, page_ok) ==
    build_plain_page(serialize_keys_values(array, normalized_validity(array)),
                     normalized_validity(array),
                     Len(array.keys), Len(array.keys),
                     DictionaryArray_null_count(array), "RleDictionary", page_ok)

\* The value types array_to_pages writes a dictionary page for
DictValueTypes ==
    {"Int8", "Int16", "Int32", "Date32", "Time32", "Int64", "Date64", "Time64",
     "Timestamp", "Duration", "UInt8", "UInt16", "UInt32", "UInt64", "Float32",
     "Float64", "Utf8", "LargeUtf8", "Binary", "LargeBinary", "FixedSizeBinary"}

\* `DictPage::new(buffer, values.len(), false)` with the plain encoding of the
\* values
dict_page_of(array) ==
    [tag |-> "Dict", num_values |-> Len(array.values), buffer |-> array.values,
     is_sorted |-> FALSE]

\* Mutant of pages_of: the data page first
pages_of_data_first(array, data_page) ==
    IF data_page[1] = "Err" THEN data_page
    ELSE <<"Ok", <<data_page[2], dict_page_of(array)>> >>

\* The iterator array_to_pages returns once the data page is serialized
pages_of(array, data_page) ==
    IF data_page[1] = "Err" THEN data_page
    ELSE <<"Ok", <<dict_page_of(array), data_page[2]>> >>

\* Mutant of array_to_pages: any value type is written
array_to_pages_any_type(array, encoding, page_ok) ==
    IF encoding \in {"PlainDictionary", "RleDictionary"}
    THEN pages_of(array, serialize_keys(array, page_ok))
    ELSE <<"Err", "NotYetImplemented">>

\* array_to_pages
array_to_pages(array, encoding, page_ok) ==
    IF encoding \in {"PlainDictionary", "RleDictionary"}
    THEN IF array.value_type \in DictValueTypes
         THEN pages_of(array, serialize_keys(array, page_ok))
         ELSE <<"Err", "NotYetImplemented">>
    ELSE <<"Err", "NotYetImplemented">>

\* Bitmaps of n bits, and an optional validity of n bits
Bitmaps(n) == [1..n -> BOOLEAN]

Validities(n) == {None} \cup {Some(b) : b \in Bitmaps(n)}

\* The DictionaryArrays of n rows over v values, the keys inside the values
DictArraysOf(n, v) ==
    {[keys |-> k, keys_validity |-> kv, values |-> [i \in 1..v |-> 40 + i],
      values_validity |-> vv, value_type |-> t] :
        k \in [1..n -> 0..(v - 1)], kv \in Validities(n), vv \in Validities(v),
        t \in {"Int32", "Utf8", "Boolean", "List", "Struct"}}

\* `array.len() - validity.unset_bits()` does not underflow
Writable(array) ==
    normalized_validity(array) = None
    \/ unset_bits(normalized_validity(array)[1]) <= Len(array.keys)

\* Three rows without a null over two values whose validity is held and all set
ThreeRowArrays ==
    {[keys |-> <<0, 0, 1>>, keys_validity |-> None, values |-> <<41, 42>>,
      values_validity |-> Some(<<TRUE, TRUE>>), value_type |-> t] :
        t \in {"Int32", "Utf8"}}

DictArrays ==
    {a \in UNION {DictArraysOf(n, v) : n \in 0..MaxDictRows, v \in 1..MaxDictValues} :
        Writable(a)}
    \cup ThreeRowArrays

\* The calls of array_to_pages
WriteCalls ==
    {[op |-> "array_to_pages", array |-> a, encoding |-> e, page_ok |-> ok] :
        a \in DictArrays, e \in {"PlainDictionary", "RleDictionary", "Plain"},
        ok \in BOOLEAN}

\* No page decoder and no GrowableUnion in the behaviours of a function called
\* on its own
NoObjects == NoIter /\ NoUnion

WriteInit ==
    /\ NoObjects
    /\ args \in WriteCalls
    /\ result = None
    /\ yielded = <<>>

\* The call of array_to_pages
ArrayToPages ==
    /\ args.op = "array_to_pages"
    /\ result = None
    /\ result' = Some(array_to_pages(args.array, args.encoding, args.page_ok))
    /\ UNCHANGED <<args, yielded>>
    /\ UNCHANGED <<iterVars, unionVars>>

\* The caller takes the next page of the iterator array_to_pages returned
NextPage ==
    /\ args.op = "array_to_pages"
    /\ result # None
    /\ result[1][1] = "Ok"
    /\ result[1][2] # <<>>
    /\ yielded' = Append(yielded, Head(result[1][2]))
    /\ result' = Some(<<"Ok", Tail(result[1][2])>>)
    /\ UNCHANGED args
    /\ UNCHANGED <<iterVars, unionVars>>

WriteNext == ArrayToPages \/ NextPage

WriteSpec == WriteInit /\ [][WriteNext]_vars

\* ------------------------------------ claims: writing a DictionaryArray
\* Row i of the array is valid: its key is valid and so is the value at its key
RowValid(array, i) ==
    /\ (array.keys_validity = None \/ array.keys_validity[1][i])
    /\ (array.values_validity = None
        \/ array.values_validity[1][array.keys[i] + 1])

\* The keys of the valid rows of the array, in row order
RECURSIVE ValidKeys(_, _)
ValidKeys(array, n) ==
    IF n = 0 THEN <<>>
    ELSE ValidKeys(array, n - 1)
         \o (IF RowValid(array, n) THEN <<array.keys[n]>> ELSE <<>>)

RECURSIVE Pow2(_)
Pow2(n) == IF n = 0 THEN 1 ELSE 2 * Pow2(n - 1)

\* The data pages array_to_pages has yielded
DataYielded ==
    IF args.op = "array_to_pages"
    THEN {yielded[p] : p \in {q \in 1..Len(yielded) : yielded[q].tag = "Data"}}
    ELSE {}

\* C11: the validity written with the data page has one bit for each row of
\* the array, and the bit of row i says that key i is valid and that the value
\* at keys[i] is valid; no validity means that every row is valid in that sense.
UnifiedValidityPerRow ==
    \A page \in DataYielded :
        IF page.validity = None
        THEN \A i \in 1..Len(args.array.keys) : RowValid(args.array, i)
        ELSE /\ Len(page.validity[1]) = Len(args.array.keys)
             /\ \A i \in 1..Len(args.array.keys) :
                    page.validity[1][i] = RowValid(args.array, i)

\* C12: the indices of the data page are the keys of the valid rows, in row
\* order, and as many elements are declared to the encoder.
EncodedKeysAreValidRows ==
    \A page \in DataYielded :
        /\ page.indices = ValidKeys(args.array, Len(args.array.keys))
        /\ page.declared = Len(page.indices)

\* C13: the prefix byte of the data page is in 0..32, every encoded key is
\* below 2^bit_width, and a bit_width above 0 is needed by some encoded key (so
\* it is 0 when no key is encoded or the largest is 0).
PrefixByteIsBitWidth ==
    \A page \in DataYielded :
        /\ page.bit_width \in 0..32
        /\ \A j \in 1..Len(page.indices) : page.indices[j] < Pow2(page.bit_width)
        /\ page.bit_width > 0
            => \E j \in 1..Len(page.indices) :
                    page.indices[j] >= Pow2(page.bit_width - 1)

\* A data page of width 1 for which a row was skipped
PrefixByteWritten ==
    \E page \in DataYielded :
        /\ page.bit_width = 1
        /\ page.indices # <<>>
        /\ Len(page.indices) < Len(args.array.keys)

\* C14: when array_to_pages returned Ok, the pages yielded and those still to
\* yield are two: a Dict page with as many values as the values array, then a
\* Data page of encoding RleDictionary, whatever encoding was asked for.
DictPageThenDataPage ==
    (args.op = "array_to_pages" /\ result # None /\ result[1][1] = "Ok")
        => /\ Len(yielded \o result[1][2]) = 2
           /\ (yielded \o result[1][2])[1].tag = "Dict"
           /\ (yielded \o result[1][2])[1].num_values = Len(args.array.values)
           /\ (yielded \o result[1][2])[2].tag = "Data"
           /\ (yielded \o result[1][2])[2].encoding = "RleDictionary"

\* Both pages yielded when PlainDictionary was asked for
BothPagesYielded ==
    /\ args.op = "array_to_pages"
    /\ args.encoding = "PlainDictionary"
    /\ Len(yielded) = 2
    /\ yielded[1].tag = "Dict"
    /\ yielded[2].encoding = "RleDictionary"

\* C15: array_to_pages on Boolean, List or Struct values, or asked for an
\* encoding other than PlainDictionary and RleDictionary, returns
\* NotYetImplemented, and no page is yielded.
UnsupportedIsNotYetImplemented ==
    (/\ args.op = "array_to_pages"
     /\ (\/ args.array.value_type \in {"Boolean", "List", "Struct"}
         \/ args.encoding \notin {"PlainDictionary", "RleDictionary"}))
        => /\ yielded = <<>>
           /\ result # None => result[1] = <<"Err", "NotYetImplemented">>

\* List values refused although a dictionary encoding was asked for
ListValuesRefused ==
    /\ args.op = "array_to_pages"
    /\ args.array.value_type = "List"
    /\ args.encoding = "RleDictionary"
    /\ result = Some(<<"Err", "NotYetImplemented">>)

\* --------------------------------------- the FixedSizeBinary page decoder
\* A FixedSizeBinary data page is [encoding, is_optional, selected_rows,
\* buffer_ok, validity, buffer, indices]: `validity` has the definition level
\* of every row (all TRUE in a required column), `buffer` the bytes of the
\* values of the valid rows, `selected_rows` the intervals (start, length) of
\* page.selected_rows().

\* `values.chunks_exact(size)`
chunks_exact(buffer, size) ==
    [i \in 1..(Len(buffer) \div size) |->
        SubSeq(buffer, (i - 1) * size + 1, i * size)]

\* Whether row `row` (from 0) is inside one of the intervals
in_intervals(row, intervals) ==
    \E k \in 1..Len(intervals) :
        intervals[k][1] <= row /\ row < intervals[k][1] + intervals[k][2]

\* SliceFilteredIter::new(values, rows): the values at the positions the
\* intervals cover
RECURSIVE SliceFilteredIter(_, _, _)
SliceFilteredIter(values, intervals, row) ==
    IF values = <<>> THEN <<>>
    ELSE (IF in_intervals(row, intervals) THEN <<Head(values)>> ELSE <<>>)
         \o SliceFilteredIter(Tail(values), intervals, row + 1)

\* OptionalPageValidity::try_new: the definition level of every row
OptionalPageValidity(page) ==
    [i \in 1..Len(page.validity) |-> IF page.validity[i] THEN "Valid" ELSE "Null"]

\* FilteredOptionalPageValidity::try_new: the definition levels of the selected
\* rows; a valid row outside the selection is a value to skip
RECURSIVE FilteredOptionalPageValidity(_, _, _)
FilteredOptionalPageValidity(validity, intervals, row) ==
    IF validity = <<>> THEN <<>>
    ELSE (IF in_intervals(row, intervals)
          THEN <<IF Head(validity) THEN "Valid" ELSE "Null">>
          ELSE IF Head(validity) THEN <<"Skip">> ELSE <<>>)
         \o FilteredOptionalPageValidity(Tail(validity), intervals, row + 1)

\* The states of the FixedSizeBinary decoder
FsbState(kind, values, validity, dictionary) ==
    [kind |-> kind, values |-> values, validity |-> validity, dict |-> dictionary]

fsb_is_filtered(page) == page.selected_rows # None

\* Required::new and FilteredRequired::new: `assert_eq!(values.len() % size, 0)`
fsb_required(kind, page, values, size) ==
    IF Len(page.buffer) % size # 0 THEN <<"Panic", "assert_eq">>
    ELSE <<"Ok", FsbState(kind, values, <<>>, <<>>)>>

\* BinaryDecoder::build_state of the FixedSizeBinary decoder: <<"Ok", state>>,
\* <<"Err", kind>>, or the panic of the assertion
fsb_build_state(page, held, size) ==
    CASE page.encoding = "Plain" /\ page.is_optional /\ ~fsb_is_filtered(page) ->
            IF page.buffer_ok
            THEN <<"Ok", FsbState("Optional", chunks_exact(page.buffer, size),
                                  OptionalPageValidity(page), <<>>)>>
            ELSE <<"Err", "OutOfSpec">>
      [] page.encoding = "Plain" /\ ~page.is_optional /\ ~fsb_is_filtered(page) ->
            fsb_required("Required", page, chunks_exact(page.buffer, size), size)
      [] IsDictEncoding(page.encoding) /\ held # None /\ ~fsb_is_filtered(page) ->
            IF page.buffer_ok
            THEN <<"Ok", FsbState(IF page.is_optional THEN "OptionalDictionary"
                                  ELSE "RequiredDictionary", page.indices,
                                  IF page.is_optional
                                  THEN OptionalPageValidity(page) ELSE <<>>,
                                  held[1])>>
            ELSE <<"Err", "OutOfSpec">>
      [] page.encoding = "Plain" /\ held = None /\ ~page.is_optional
         /\ fsb_is_filtered(page) ->
            fsb_required("FilteredRequired", page,
                         SliceFilteredIter(chunks_exact(page.buffer, size),
                                           page.selected_rows[1], 0), size)
      [] page.encoding = "Plain" /\ page.is_optional /\ fsb_is_filtered(page) ->
            IF page.buffer_ok
            THEN <<"Ok", FsbState("FilteredOptional",
                                  chunks_exact(page.buffer, size),
                                  FilteredOptionalPageValidity(
                                      page.validity, page.selected_rows[1], 0),
                                  <<>>)>>
            ELSE <<"Err", "OutOfSpec">>
      [] OTHER -> <<"Err", "NotYetImplemented">>

\* DecodedState of the FixedSizeBinary decoder: (FixedSizeBinary, MutableBitmap)
fsb_with_capacity(capacity) == [values |-> <<>>, validity |-> <<>>]

\* `&page.dict[index * self.size..(index + 1) * self.size]`
dict_value(dictionary, index, size) ==
    IF (index + 1) * size > Len(dictionary) THEN PanicValue
    ELSE SubSeq(dictionary, index * size + 1, (index + 1) * size)

\* extend_from_decoder(validity, page_validity, Some(limit), values, page_values):
\* a value for a valid row, `size` zero bytes for a null one, and a value
\* dropped for every row to skip
RECURSIVE extend_from_decoder(_, _, _, _, _)
extend_from_decoder(decoded, page_validity, limit, page_values, size) ==
    IF page_validity = <<>> \/ limit = 0 THEN decoded
    ELSE IF Head(page_validity) = "Skip"
    THEN extend_from_decoder(decoded, Tail(page_validity), limit,
                             Tail(page_values), size)
    ELSE IF Head(page_validity) = "Valid"
    THEN extend_from_decoder(
            [values |-> Append(decoded.values, Head(page_values)),
             validity |-> Append(decoded.validity, TRUE)],
            Tail(page_validity), limit - 1, Tail(page_values), size)
    ELSE extend_from_decoder(
            [values |-> Append(decoded.values, [k \in 1..size |-> 0]),
             validity |-> Append(decoded.validity, FALSE)],
            Tail(page_validity), limit - 1, page_values, size)

\* `for x in page.values.by_ref().take(remaining) { values.push(x) }`
push_taken(decoded, values, limit) ==
    [decoded EXCEPT !.values = @ \o SubSeq(values, 1, Min(limit, Len(values)))]

\* Mutant of extend_from_state: the values are not limited to `remaining`
extend_from_state_unlimited(state, decoded, limit, size) ==
    CASE state.kind \in {"Optional", "FilteredOptional"} ->
            extend_from_decoder(decoded, state.validity, Len(state.validity),
                                state.values, size)
      [] state.kind \in {"Required", "FilteredRequired"} ->
            push_taken(decoded, state.values, Len(state.values))
      [] state.kind = "OptionalDictionary" ->
            extend_from_decoder(decoded, state.validity, limit,
                [i \in 1..Len(state.values) |->
                    dict_value(state.dict, state.values[i], size)], size)
      [] state.kind = "RequiredDictionary" ->
            push_taken(decoded,
                [i \in 1..Len(state.values) |->
                    dict_value(state.dict, state.values[i], size)], limit)

\* The match of extend_from_state; a dictionary index is resolved when its
\* value is taken
extended_by_state(state, decoded, limit, size) ==
    CASE state.kind \in {"Optional", "FilteredOptional"} ->
            extend_from_decoder(decoded, state.validity, limit, state.values, size)
      [] state.kind \in {"Required", "FilteredRequired"} ->
            push_taken(decoded, state.values, limit)
      [] state.kind = "OptionalDictionary" ->
            extend_from_decoder(decoded, state.validity, limit,
                [i \in 1..Len(state.values) |->
                    dict_value(state.dict, state.values[i], size)], size)
      [] state.kind = "RequiredDictionary" ->
            push_taken(decoded,
                [i \in 1..Len(state.values) |->
                    dict_value(state.dict, state.values[i], size)], limit)

\* BinaryDecoder::extend_from_state of the FixedSizeBinary decoder: the
\* extended DecodedState, or the panic of an index out of the dictionary
extend_from_state(state, decoded, limit, size) ==
    IF \E i \in 1..Len(extended_by_state(state, decoded, limit, size).values) :
            extended_by_state(state, decoded, limit, size).values[i] = PanicValue
    THEN [panicked |-> TRUE]
    ELSE extended_by_state(state, decoded, limit, size)

\* deserialize_dict of the FixedSizeBinary decoder: `page.buffer.clone()`
fsb_deserialize_dict(dict_page) == dict_page.buffer

\* ------------------------------------------- build_state called on a page
\* The bytes of the value of row `row` (from 0) of a FixedSizeBinary page
FsbRowValue(row, size) == [k \in 1..size |-> 130 + row]

\* The plain buffer of a page: the values of its valid rows
RECURSIVE FsbBuffer(_, _, _)
FsbBuffer(validity, row, size) ==
    IF validity = <<>> THEN <<>>
    ELSE (IF Head(validity) THEN FsbRowValue(row, size) ELSE <<>>)
         \o FsbBuffer(Tail(validity), row + 1, size)

\* The dictionary held for a FixedSizeBinary column: two values
FsbDict(size) == [k \in 1..(2 * size) |-> 7 + ((k - 1) \div size)]

\* The indices of a dictionary-encoded page: one for each valid row
FsbIndices(validity) ==
    [i \in 1..Cardinality({j \in 1..Len(validity) : validity[j]}) |-> (i - 1) % 2]

\* The selections of a page of n rows: none, one interval, two intervals
IntervalLists(n) ==
    {<<>>}
    \cup {<< <<start, len>> >> : start \in 0..(n - 1), len \in 1..n}
    \cup {<< <<0, 1>>, <<2, len>> >> : len \in 1..(n - 2)}

SelectedRows(n) ==
    {None}
    \cup {Some(l) : l \in {x \in IntervalLists(n) :
                            \A k \in 1..Len(x) : x[k][1] + x[k][2] <= n}}

\* A FixedSizeBinary data page; a ragged buffer has a byte too many
FsbPage(encoding, is_optional, selected_rows, buffer_ok, validity, size, ragged) ==
    [tag |-> "Data", encoding |-> encoding, is_optional |-> is_optional,
     selected_rows |-> selected_rows, buffer_ok |-> buffer_ok,
     validity |-> validity,
     buffer |-> IF IsDictEncoding(encoding) THEN <<>>
                ELSE FsbBuffer(validity, 0, size)
                     \o (IF ragged THEN <<255>> ELSE <<>>),
     indices |-> IF IsDictEncoding(encoding) THEN FsbIndices(validity) ELSE <<>>]

Encodings == {"Plain", "PlainDictionary", "RleDictionary", "DeltaLengthByteArray"}

\* The validities of the pages of a column: all valid when it is required
PageValidities(n, is_optional) ==
    IF is_optional THEN Bitmaps(n) ELSE {[i \in 1..n |-> TRUE]}

\* A call of build_state of the FixedSizeBinary decoder, followed by
\* extend_from_state with `remaining`
FsbCall(size, limit, held, page) ==
    [op |-> "fsb", size |-> size, remaining |-> limit, held |-> held,
     page |-> page]

\* A page of n rows may have a ragged buffer when it is plain, required and of
\* values longer than a byte
Raggeds(encoding, is_optional, size) ==
    IF encoding = "Plain" /\ ~is_optional /\ size > 1 THEN BOOLEAN ELSE {FALSE}

FsbInit ==
    \E size \in 1..MaxFsbSize, n \in 0..MaxFsbRows, o \in BOOLEAN, e \in Encodings :
        \E sel \in SelectedRows(n), ok \in BOOLEAN, v \in PageValidities(n, o),
           rag \in Raggeds(e, o, size), rem \in 0..MaxFsbRows,
           h \in {None, Some(FsbDict(size))} :
            args = FsbCall(size, rem, h, FsbPage(e, o, sel, ok, v, size, rag))

\* The calls on a dictionary page that has an index out of the dictionary of
\* two values
FsbBadIndexInit ==
    \E size \in 1..MaxFsbSize, n \in 1..MaxFsbRows, o \in BOOLEAN,
       e \in {"PlainDictionary", "RleDictionary"}, rem \in 0..MaxFsbRows :
        \E v \in PageValidities(n, o), k \in 1..n, bad \in {2, 3} :
            /\ k <= Len(FsbIndices(v))
            /\ args = FsbCall(size, rem, Some(FsbDict(size)),
                              [FsbPage(e, o, None, TRUE, v, size, FALSE)
                                EXCEPT !.indices[k] = bad])

\* The calls of build_state of the nested Binary decoder, followed by
\* push_valid; the index 2 is out of the dictionary of two values
BinaryCalls ==
    {[op |-> "binary", held |-> h,
      page |-> [DataPage(e, o, f, ok, << <<0, 3>> >>)
                    EXCEPT !.indices = IF bad /\ IsDictEncoding(e)
                                       THEN <<2>> \o @ ELSE @]] :
        e \in Encodings, o \in BOOLEAN, f \in BOOLEAN, ok \in BOOLEAN,
        bad \in BOOLEAN, h \in {None, Some(<< <<11>>, <<12>> >>)}}

BuildInit ==
    /\ NoObjects
    /\ FsbInit \/ FsbBadIndexInit \/ args \in BinaryCalls
    /\ result = None
    /\ yielded = <<>>

\* build_state of the decoder of the call
BuildState ==
    /\ args.op \in {"fsb", "binary"}
    /\ result = None
    /\ result' = Some(IF args.op = "fsb"
                      THEN fsb_build_state(args.page, args.held, args.size)
                      ELSE build_state(args.page, args.held))
    /\ UNCHANGED <<args, yielded>>
    /\ UNCHANGED <<iterVars, unionVars>>

\* extend_from_state on the state build_state returned, into an empty
\* DecodedState
ExtendFromState ==
    /\ args.op = "fsb"
    /\ result # None
    /\ result[1][1] = "Ok"
    /\ yielded = <<>>
    /\ yielded' = <<extend_from_state(result[1][2], fsb_with_capacity(0),
                                      args.remaining, args.size)>>
    /\ UNCHANGED <<args, result>>
    /\ UNCHANGED <<iterVars, unionVars>>

\* push_valid of the nested Binary decoder on the state build_state returned,
\* into an empty DecodedState
PushValid ==
    /\ args.op = "binary"
    /\ result # None
    /\ result[1][1] = "Ok"
    /\ yielded = <<>>
    /\ yielded' = <<IF PanicValue \in
                        {push_valid(result[1][2], with_capacity(0)).decoded.values[i] :
                            i \in 1..Len(push_valid(result[1][2],
                                                    with_capacity(0)).decoded.values)}
                    THEN [panicked |-> TRUE]
                    ELSE push_valid(result[1][2], with_capacity(0)).decoded>>
    /\ UNCHANGED <<args, result>>
    /\ UNCHANGED <<iterVars, unionVars>>

BuildNext == BuildState \/ ExtendFromState \/ PushValid

BuildSpec == BuildInit /\ [][BuildNext]_vars

\* ------------------------------------------------- claims: build_state
\* The outcome of build_state: the kind of the state, or the kind of the error
OutcomeOf(res) == IF res[1] = "Ok" THEN res[2].kind ELSE res[2]

CallIsFiltered ==
    IF args.op = "fsb" THEN args.page.selected_rows # None
    ELSE args.page.is_filtered

\* The outcome the encoding, the held dictionary, is_optional and is_filtered
\* select
ExpectedOutcome ==
    IF args.page.encoding = "Plain" /\ ~CallIsFiltered
    THEN IF args.page.is_optional THEN "Optional" ELSE "Required"
    ELSE IF args.page.encoding = "Plain" /\ args.op = "fsb"
    THEN IF args.page.is_optional THEN "FilteredOptional" ELSE "FilteredRequired"
    ELSE IF args.page.encoding \in {"PlainDictionary", "RleDictionary"}
            /\ args.held # None /\ ~CallIsFiltered
    THEN IF args.page.is_optional THEN "OptionalDictionary"
         ELSE "RequiredDictionary"
    ELSE "NotYetImplemented"

\* A page whose buffer splits and, for the FixedSizeBinary decoder, is a
\* multiple of the size
WellFormedPage ==
    /\ args.page.buffer_ok
    /\ args.op = "fsb" => Len(args.page.buffer) % args.size = 0

\* C16: on a well-formed page build_state gives the state, or the
\* NotYetImplemented error, that the encoding, the held dictionary, is_optional
\* and is_filtered select: Plain gives Optional/Required, or for the
\* FixedSizeBinary decoder FilteredOptional/FilteredRequired when filtered; a
\* dictionary encoding with a dictionary held and no filter gives
\* OptionalDictionary/RequiredDictionary; all else is NotYetImplemented.
BuildStateByTable ==
    (args.op \in {"fsb", "binary"} /\ result # None /\ WellFormedPage)
        => OutcomeOf(result[1]) = ExpectedOutcome

\* The dictionary of the call, held when it was not and dropped when it was
OtherHeld ==
    IF args.held # None THEN None
    ELSE IF args.op = "fsb" THEN Some(FsbDict(args.size))
    ELSE Some(<< <<11>>, <<12>> >>)

\* C17: on a Plain page build_state returns the same state or the same error
\* whether a dictionary is held or not.
PlainIgnoresDictionary ==
    (args.op \in {"fsb", "binary"} /\ result # None
     /\ args.page.encoding = "Plain")
        => result[1] = IF args.op = "fsb"
                       THEN fsb_build_state(args.page, OtherHeld, args.size)
                       ELSE build_state(args.page, OtherHeld)

\* The rows of a page of n rows that the intervals select, in row order
RECURSIVE SelectedRowsOf(_, _)
SelectedRowsOf(intervals, n) ==
    IF n = 0 THEN <<>>
    ELSE SelectedRowsOf(intervals, n - 1)
         \o (IF \E k \in 1..Len(intervals) :
                    intervals[k][1] <= n - 1
                    /\ n - 1 < intervals[k][1] + intervals[k][2]
             THEN <<n - 1>> ELSE <<>>)

\* The rows a filtered call is to append: the selected ones, at most `remaining`
RowsToAppend ==
    SubSeq(SelectedRowsOf(args.page.selected_rows[1], Len(args.page.validity)),
           1,
           Min(args.remaining,
               Len(SelectedRowsOf(args.page.selected_rows[1],
                                  Len(args.page.validity)))))

NullableList == <<List(TRUE), Primitive(TRUE)>>

NullableListPairs == {<<0, 0>>, <<0, 1>>, <<0, 3>>, <<1, 3>>, <<1, 2>>}

\* A required list of required values: an empty list, a first value, a further
\* value
RequiredList == <<List(FALSE), Primitive(FALSE)>>

RequiredListPairs == {<<0, 0>>, <<0, 1>>, <<1, 1>>}

\* A nullable struct of a nullable value: a null struct, a null value, a value
NullableStruct == <<Struct(TRUE), Primitive(TRUE)>>

NullableStructPairs == {<<0, 0>>, <<0, 1>>, <<0, 2>>}

\* A required struct of a nullable value: a null value, a value
RequiredStruct == <<Struct(FALSE), Primitive(TRUE)>>

RequiredStructPairs == {<<0, 0>>, <<0, 1>>}

\* A nullable list of nullable structs of a nullable value: a null list, a
\* first null struct, a first value, a further value
ListOfStruct == <<List(TRUE), Struct(TRUE), Primitive(TRUE)>>

ListOfStructPairs == {<<0, 0>>, <<0, 2>>, <<0, 4>>, <<1, 4>>}

\* A nullable struct of a nullable list of nullable values: a null struct, a
\* null list, a first value, a further value
StructOfList == <<Struct(TRUE), List(TRUE), Primitive(TRUE)>>

StructOfListPairs == {<<0, 0>>, <<0, 1>>, <<0, 4>>, <<1, 4>>}

LevelInits ==
    {NullableList, RequiredList, NullableStruct, RequiredStruct, ListOfStruct,
     StructOfList}

LevelPairs(init) ==
    CASE init = NullableList -> NullableListPairs
      [] init = RequiredList -> RequiredListPairs
      [] init = NullableStruct -> NullableStructPairs
      [] init = RequiredStruct -> RequiredStructPairs
      [] init = ListOfStruct -> ListOfStructPairs
      [] init = StructOfList -> StructOfListPairs

\* The levels of the rows [[1,2,3], [], null, [4]] of a nullable list of
\* nullable values
ListExampleLevels ==
    << <<0, 3>>, <<1, 3>>, <<1, 3>>, <<0, 1>>, <<0, 0>>, <<0, 3>> >>

\* The level streams of the pages that may follow `used` pairs in a chunk; the
\* example is a first page
LevelPages(init, used) ==
    {l \in UNION {[1..n -> LevelPairs(init)] : n \in 0..MaxLevelPairs} :
        used + Len(l) <= MaxChunkPairs}
    \cup (IF init = NullableList /\ used = 0 THEN {ListExampleLevels} ELSE {})

\* The state of the values of a plain page: <<1>>, <<2>>, ... one for each pair
LevelValues(init, levels) ==
    PageValues(IF init[Len(init)].nullable THEN "Optional" ELSE "Required",
               [i \in 1..Len(levels) |-> <<i>>], <<>>)

LevelInit ==
    /\ NoObjects
    /\ \E init \in LevelInits :
        /\ args = [op |-> "extend_offsets2", init |-> init]
        /\ result = Some(<<init_nested(init, 0), with_capacity(0)>>)
    /\ yielded = <<>>

\* The pairs the calls so far have taken into the chunk
PairsUsed == IF yielded = <<>> THEN 0 ELSE yielded[1].used

\* The call on a new page; `yielded` keeps the last call: its page, its
\* `additional`, the pairs it left in the page and the pairs taken so far
LevelCalled(r, levels, additional) ==
    /\ result' = Some(chunk_of(r))
    /\ yielded' = <<[levels |-> levels, additional |-> additional,
                     left |-> r.levels,
                     used |-> PairsUsed + Len(levels) - Len(r.levels)]>>
    /\ UNCHANGED args
    /\ UNCHANGED <<iterVars, unionVars>>

\* extend_offsets2 on a new page, into the chunk, for `additional` rows
ExtendOffsets ==
    /\ args.op = "extend_offsets2"
    /\ \E levels \in LevelPages(args.init, PairsUsed), additional \in {1, 2, UsizeMax} :
        LevelCalled(extend_offsets2(levels, LevelValues(args.init, levels),
                                    result[1][1].nested, result[1][2],
                                    additional),
                    levels, additional)

LevelSpec == LevelInit /\ [][ExtendOffsets]_vars

\* ------------------------------------------------ claims on extend_offsets2
\* The list array made of a list builder and its child: the offsets the
\* builder recorded, closed by the length of the child
create_list(nest, values_len) ==
    [offsets |-> Append(nest.offsets, values_len),
     validity |-> IF nest.kind = "Optional" THEN nest.validity ELSE <<>>]

\* The builders and the leaf of the chunk
ChunkNested == result[1][1].nested

ChunkLeaf == result[1][2]

\* The whole example page was decoded as the first page of a chunk of a
\* nullable list of nullable values
ListExampleDecoded ==
    /\ args.op = "extend_offsets2"
    /\ args.init = NullableList
    /\ yielded # <<>>
    /\ yielded[1].levels = ListExampleLevels
    /\ yielded[1].additional = UsizeMax

\* C19: the levels of the rows [[1,2,3], [], null, [4]] of a nullable list of
\* nullable values decode to the list offsets [0,3,3,3,4], the list validity
\* [true,true,false,true] and exactly four leaf values, the first four of the
\* page, all valid: the empty and the null list add nothing to the leaf.
ListExampleOffsets ==
    ListExampleDecoded
        => /\ create_list(ChunkNested[1], nested_len(ChunkNested[2]))
                = [offsets |-> <<0, 3, 3, 3, 4>>,
                   validity |-> <<TRUE, TRUE, FALSE, TRUE>>]
           /\ nested_len(ChunkNested[2]) = 4
           /\ ChunkLeaf = [values |-> << <<1>>, <<2>>, <<3>>, <<4>> >>,
                           validity |-> <<TRUE, TRUE, TRUE, TRUE>>]
           /\ yielded[1].left = <<>>

\* The example was decoded: four rows, none left in the page
ListExampleReached ==
    /\ ListExampleDecoded
    /\ nested_len(ChunkNested[1]) = 4
    /\ yielded[1].used = 6

\* The depths of the chunk that hold a list builder
ListDepths ==
    {d \in 1..Len(ChunkNested) : ChunkNested[d].kind \in {"Optional", "Valid"}}

\* C20: in the chunk extend_offsets2 has extended, over every page appended to
\* it, the offsets of each list builder are non-decreasing and each is at most
\* the length of the builder one depth below.
OffsetsMonotonic ==
    args.op = "extend_offsets2"
        => \A d \in ListDepths :
            /\ \A i \in 1..(Len(ChunkNested[d].offsets) - 1) :
                ChunkNested[d].offsets[i] <= ChunkNested[d].offsets[i + 1]
            /\ \A i \in 1..Len(ChunkNested[d].offsets) :
                ChunkNested[d].offsets[i] <= nested_len(ChunkNested[d + 1])

\* A second page added a list to the lists of the first: the offsets of the
\* list builder go on from the values of the first page
OffsetsOverTwoPages ==
    /\ args.op = "extend_offsets2"
    /\ yielded # <<>>
    /\ Len(yielded[1].levels) > Len(yielded[1].left)
    /\ yielded[1].used > Len(yielded[1].levels) - Len(yielded[1].left)
    /\ \E d \in ListDepths :
        /\ Len(ChunkNested[d].offsets) >= 2
        /\ ChunkNested[d].offsets[Len(ChunkNested[d].offsets)] > 0
        /\ nested_len(ChunkNested[d + 1])
                > ChunkNested[d].offsets[Len(ChunkNested[d].offsets)]

\* The depths of the chunk, the leaf apart, that hold a struct builder
StructDepths ==
    {d \in 1..(Len(ChunkNested) - 1) :
        ChunkNested[d].kind \in {"Struct", "StructValid"}}

\* C21: after the pairs extend_offsets2 has processed, a struct builder above
\* the leaf is as long as the builder one depth below: a struct entry, valid
\* or null, was pushed for a pair iff its child was.
StructChildSameLength ==
    args.op = "extend_offsets2"
        => \A d \in StructDepths :
            nested_len(ChunkNested[d]) = nested_len(ChunkNested[d + 1])

\* A null struct was pushed, and its child with it
NullStructPushed ==
    /\ args.op = "extend_offsets2"
    /\ \E d \in StructDepths :
        /\ ChunkNested[d].kind = "Struct"
        /\ \E i \in 1..Len(ChunkNested[d].validity) : ~ChunkNested[d].validity[i]
        /\ nested_len(ChunkNested[d + 1]) = Len(ChunkNested[d].validity)

\* ------------------------------------------ the builders of the Avro reader
\* A usize too large for the integers of the model is two limbs: hi * 2^16 + lo
Limb == 256 * 256

Usize(hi, lo) == [hi |-> hi, lo |-> lo]

UsizeLeq(a, b) == a.hi < b.hi \/ (a.hi = b.hi /\ a.lo <= b.lo)

\* O::from_usize: the length as an O, None when it does not fit: i32 holds up
\* to 2^31 - 1, i64 every length of the model
from_usize(O, size) ==
    IF O = "i64" \/ UsizeLeq(size, Usize(Limb \div 2 - 1, Limb - 1))
    THEN Some(size) ELSE None

\* DynMutableListArray::new_from; the child is its length
DynMutableListArray_new_from(O) ==
    [O |-> O, offsets |-> <<Usize(0, 0)>>, values |-> Usize(0, 0),
     validity |-> None]

\* DynMutableListArray::last_offset
last_offset(b) == b.offsets[Len(b.offsets)]

\* validity.set(len - 1, false) on `len` true bits; it panics on no bit
back_filled(len) ==
    IF len = 0 THEN <<"Panic">>
    ELSE <<"Ok", [i \in 1..len |-> i # len]>>

\* DynMutableListArray::init_validity
list_init_validity(b) ==
    IF back_filled(Len(b.offsets) - 1)[1] = "Panic" THEN [res |-> "Panic", b |-> b]
    ELSE [res |-> "Ok",
          b |-> [b EXCEPT !.validity = Some(back_filled(Len(b.offsets) - 1)[2])]]

\* try_push_valid with the offset pushed before the length is converted
try_push_valid_unchecked(b) ==
    [res |-> "Ok",
     b |-> [b EXCEPT !.offsets = Append(@, b.values),
                     !.validity = IF @ = None THEN None
                                  ELSE Some(Append(@[1], TRUE))]]

\* try_push_valid that leaves the validity as it is
try_push_valid_no_bit(b) ==
    IF from_usize(b.O, b.values) = None THEN [res |-> "Overflow", b |-> b]
    ELSE IF ~UsizeLeq(last_offset(b), from_usize(b.O, b.values)[1])
    THEN [res |-> "Panic", b |-> b]
    ELSE [res |-> "Ok",
          b |-> [b EXCEPT !.offsets = Append(@, from_usize(b.O, b.values)[1])]]

\* DynMutableListArray::try_push_valid
try_push_valid(b) ==
    IF from_usize(b.O, b.values) = None THEN [res |-> "Overflow", b |-> b]
    ELSE IF ~UsizeLeq(last_offset(b), from_usize(b.O, b.values)[1])
    THEN [res |-> "Panic", b |-> b]
    ELSE [res |-> "Ok",
          b |-> [b EXCEPT !.offsets = Append(@, from_usize(b.O, b.values)[1]),
                          !.validity = IF @ = None THEN None
                                       ELSE Some(Append(@[1], TRUE))]]

\* push_null that allocates a validity of one bit
list_push_null_one_bit(b) ==
    [res |-> "Ok",
     b |-> [b EXCEPT !.offsets = Append(@, last_offset(b)),
                     !.validity = Some(IF @ = None THEN <<>> ELSE @[1]
                                       \o <<FALSE>>)]]

\* DynMutableListArray::push_null
list_push_null(b) ==
    IF b.validity # None
    THEN [res |-> "Ok",
          b |-> [b EXCEPT !.offsets = Append(@, last_offset(b)),
                          !.validity = Some(Append(@[1], FALSE))]]
    ELSE list_init_validity([b EXCEPT !.offsets = Append(@, last_offset(b))])

\* DynMutableListArray::as_box / as_arc: the ListArray of the offsets, the
\* child and the validity, all taken from the builder
list_as_box(b) ==
    [res |-> "Ok",
     array |-> [offsets |-> b.offsets, values |-> b.values,
                validity |-> b.validity],
     b |-> [b EXCEPT !.offsets = <<>>, !.validity = None]]

\* The lengths the child of a list builder is grown to
ChildLengths ==
    {Usize(0, 0), Usize(0, 1), Usize(0, 2),
     Usize(Limb \div 2 - 1, Limb - 2), Usize(Limb \div 2 - 1, Limb - 1),
     Usize(Limb \div 2, 0), Usize(Limb \div 2, 1)}

\* DynMutableStructArray::new; a child is the validity of its entries
DynMutableStructArray_new(nchildren) ==
    [values |-> [f \in 1..nchildren |-> <<>>], validity |-> None]

\* MutableArray::len of the struct builder: `self.values[0].len()`
struct_len(b) == Len(b.values[1])

\* DynMutableStructArray::init_validity
struct_init_validity(b) ==
    IF back_filled(struct_len(b))[1] = "Panic" THEN [res |-> "Panic", b |-> b]
    ELSE [res |-> "Ok",
          b |-> [b EXCEPT !.validity = Some(back_filled(struct_len(b))[2])]]

\* The children after `self.values.iter_mut().for_each(|x| x.push_null())`
children_push_null(values) == [f \in 1..Len(values) |-> Append(values[f], FALSE)]

\* push_null that gives the null to the first child only
struct_push_null_first_child(b) ==
    IF b.validity # None
    THEN [res |-> "Ok",
          b |-> [b EXCEPT !.values[1] = Append(@, FALSE),
                          !.validity = Some(Append(@[1], FALSE))]]
    ELSE struct_init_validity([b EXCEPT !.values[1] = Append(@, FALSE)])

\* DynMutableStructArray::push_null
struct_push_null(b) ==
    IF b.validity # None
    THEN [res |-> "Ok",
          b |-> [b EXCEPT !.values = children_push_null(@),
                          !.validity = Some(Append(@[1], FALSE))]]
    ELSE struct_init_validity([b EXCEPT !.values = children_push_null(@)])

\* DynMutableStructArray::as_box / as_arc
struct_as_box(b) ==
    [res |-> "Ok",
     array |-> [values |-> b.values, validity |-> b.validity],
     b |-> [b EXCEPT !.validity = None]]

\* FixedItemsUtf8Dictionary::with_capacity
FixedItemsUtf8Dictionary_with_capacity(values) ==
    [keys |-> <<>>, values |-> values]

\* FixedItemsUtf8Dictionary::push_valid
dict_push_valid(b, key) == [b EXCEPT !.keys = Append(@, Some(key))]

\* FixedItemsUtf8Dictionary::push_null
dict_push_null(b) == [b EXCEPT !.keys = Append(@, None)]

\* DictionaryArray::try_new: the keys that are valid index the values
DictionaryArray_try_new(keys, values) ==
    IF \A i \in 1..Len(keys) :
            keys[i] # None => (0 <= keys[i][1] /\ keys[i][1] < Len(values))
    THEN <<"Ok", [keys |-> keys, values |-> values]>>
    ELSE <<"Err", "InvalidArgumentError">>

\* as_box that builds the array without a look at the keys
dict_as_box_unchecked(b) ==
    [res |-> "Ok", array |-> [keys |-> b.keys, values |-> b.values],
     b |-> [b EXCEPT !.keys = <<>>]]

\* FixedItemsUtf8Dictionary::as_box / as_arc: the keys are taken, the values
\* cloned, and the error of try_new is unwrapped
dict_as_box(b) ==
    IF DictionaryArray_try_new(b.keys, b.values)[1] = "Ok"
    THEN [res |-> "Ok", array |-> DictionaryArray_try_new(b.keys, b.values)[2],
          b |-> [b EXCEPT !.keys = <<>>]]
    ELSE [res |-> "Panic", array |-> <<>>, b |-> [b EXCEPT !.keys = <<>>]]

\* The builders made: a list builder of i32 or i64 offsets, a struct builder
\* of one or two children, a dictionary builder over zero to two values
AvroBuilders ==
    {[kind |-> "List", b |-> DynMutableListArray_new_from(O)] : O \in {"i32", "i64"}}
    \cup {[kind |-> "Struct", b |-> DynMutableStructArray_new(n)] : n \in 1..2}
    \cup {[kind |-> "Dictionary", b |-> FixedItemsUtf8Dictionary_with_capacity(v)] :
            v \in {<<>>, <<"a">>, <<"a", "b">>}}

\* The keys given to push_valid
AvroKeys == {-1, 0, 1, 2}

\* args: the builder as it was made; result: the builder; yielded: the last call, what
\* it returned, and the entries pushed (for the dictionary builder since the
\* keys were last taken; for the struct builder a valid entry is one pushed to
\* every child)
AvroInit ==
    /\ NoObjects
    /\ \E made \in AvroBuilders :
        /\ args = [op |-> "avro", kind |-> made.kind, made |-> made.b]
        /\ result = Some(made.b)
    /\ yielded = <<[call |-> "new", res |-> "Ok", array |-> <<>>, pushes |-> <<>>]>>

\* A builder is used until it is finalized or a call panics; the dictionary
\* builder, whose keys are empty again, is used on
AvroLive(kind) ==
    /\ args.op = "avro"
    /\ args.kind = kind
    /\ yielded[1].res # "Panic"
    /\ kind # "Dictionary" => yielded[1].call # "as_box"

AvroCalled(call, r, array, pushes) ==
    /\ result' = Some(r.b)
    /\ yielded' = <<[call |-> call, res |-> r.res, array |-> array,
                     pushes |-> pushes]>>
    /\ UNCHANGED args
    /\ UNCHANGED <<iterVars, unionVars>>

\* The caller pushes to the child through mut_values
ListChildGrows ==
    /\ AvroLive("List")
    /\ \E size \in ChildLengths :
        /\ UsizeLeq(result[1].values, size)
        /\ size # result[1].values
        /\ AvroCalled("mut_values",
                      [res |-> "Ok", b |-> [result[1] EXCEPT !.values = size]],
                      <<>>, yielded[1].pushes)

ListTryPushValid ==
    /\ AvroLive("List")
    /\ Len(result[1].offsets) <= MaxAvroLen
    /\ AvroCalled("try_push_valid", try_push_valid(result[1]), <<>>,
                  IF try_push_valid(result[1]).res = "Ok"
                  THEN Append(yielded[1].pushes, "valid")
                  ELSE yielded[1].pushes)

ListPushNull ==
    /\ AvroLive("List")
    /\ Len(result[1].offsets) <= MaxAvroLen
    /\ AvroCalled("push_null", list_push_null(result[1]), <<>>,
                  Append(yielded[1].pushes, "null"))

ListAsBox ==
    /\ AvroLive("List")
    /\ AvroCalled("as_box", list_as_box(result[1]),
                  <<list_as_box(result[1]).array>>, yielded[1].pushes)

\* The caller pushes a valid entry to one child through mut_values
StructChildPush ==
    /\ AvroLive("Struct")
    /\ \E f \in 1..Len(result[1].values) :
        /\ Len(result[1].values[f]) < MaxAvroLen
        /\ AvroCalled("mut_values",
                      [res |-> "Ok",
                       b |-> [result[1] EXCEPT !.values[f] = Append(@, TRUE)]],
                      <<>>,
                      IF \A g \in 1..Len(result[1].values) :
                            g # f => Len(result[1].values[g])
                                        = Len(result[1].values[f]) + 1
                      THEN Append(yielded[1].pushes, "valid")
                      ELSE yielded[1].pushes)

StructPushNull ==
    /\ AvroLive("Struct")
    /\ \A f \in 1..Len(result[1].values) : Len(result[1].values[f]) < MaxAvroLen
    /\ AvroCalled("push_null", struct_push_null(result[1]), <<>>,
                  Append(yielded[1].pushes, "null"))

StructAsBox ==
    /\ AvroLive("Struct")
    /\ AvroCalled("as_box", struct_as_box(result[1]),
                  <<struct_as_box(result[1]).array>>, yielded[1].pushes)

DictPushValid ==
    /\ AvroLive("Dictionary")
    /\ Len(result[1].keys) < MaxAvroLen
    /\ \E key \in AvroKeys :
        AvroCalled("push_valid",
                   [res |-> "Ok", b |-> dict_push_valid(result[1], key)],
                   <<>>,
                   IF yielded[1].call = "as_box" THEN <<"valid">>
                   ELSE Append(yielded[1].pushes, "valid"))

DictPushNull ==
    /\ AvroLive("Dictionary")
    /\ Len(result[1].keys) < MaxAvroLen
    /\ AvroCalled("push_null",
                  [res |-> "Ok", b |-> dict_push_null(result[1])],
                  <<>>,
                  IF yielded[1].call = "as_box" THEN <<"null">>
                  ELSE Append(yielded[1].pushes, "null"))

DictAsBox ==
    /\ AvroLive("Dictionary")
    /\ AvroCalled("as_box", dict_as_box(result[1]),
                  IF dict_as_box(result[1]).res = "Ok"
                  THEN <<dict_as_box(result[1]).array>> ELSE <<>>,
                  IF yielded[1].call = "as_box" THEN <<>> ELSE yielded[1].pushes)

AvroNext ==
    \/ ListChildGrows \/ ListTryPushValid \/ ListPushNull \/ ListAsBox
    \/ StructChildPush \/ StructPushNull \/ StructAsBox
    \/ DictPushValid \/ DictPushNull \/ DictAsBox

AvroSpec == AvroInit /\ [][AvroNext]_vars

\* ------------------------------------- claims on the builders of the Avro reader
\* The step is the call `call` on the builder of kind `kind`
AvroStep(kind, call) ==
    /\ args.op = "avro"
    /\ args.kind = kind
    /\ yielded'[1].call = call

\* 2^31 - 1, the largest i32
I32Max == Usize(Limb \div 2 - 1, Limb - 1)

\* C22: try_push_valid appends the length of the child as the next offset
\* when it fits O, and pushes a true bit to a validity that exists; when it
\* does not fit it returns Overflow and leaves the offsets and the validity as
\* they were. With O = i32 it is Overflow exactly when the length is above
\* 2^31 - 1.
TryPushValidOverflows ==
    [][AvroStep("List", "try_push_valid")
        => IF result[1].O = "i32" /\ ~UsizeLeq(result[1].values, I32Max)
           THEN /\ yielded'[1].res = "Overflow"
                /\ result'[1].offsets = result[1].offsets
                /\ result'[1].validity = result[1].validity
           ELSE /\ yielded'[1].res = "Ok"
                /\ result'[1].offsets = Append(result[1].offsets, result[1].values)
                /\ result'[1].validity
                    = IF result[1].validity = None THEN None
                      ELSE Some(Append(result[1].validity[1], TRUE))]_vars

\* After an offset of 2^31 - 1 the child has 2^31 entries: Overflow
OverflowAtTwoTo31 ==
    /\ args.op = "avro"
    /\ args.kind = "List"
    /\ yielded[1].call = "try_push_valid"
    /\ yielded[1].res = "Overflow"
    /\ result[1].values = Usize(Limb \div 2, 0)
    /\ last_offset(result[1]) = I32Max

\* C23: a list builder has no validity until the first push_null; push_null
\* appends a copy of the last offset, and the first one, on a builder that then
\* has n entries, creates a validity of n - 1 true bits and a last false bit;
\* a later one pushes a false bit.
ListValidityIsLazy ==
    [][(args.op = "avro" /\ args.kind = "List")
        => /\ yielded[1].call = "new" => result[1].validity = None
           /\ (yielded'[1].call \in {"try_push_valid", "mut_values"}
               /\ result[1].validity = None) => result'[1].validity = None
           /\ yielded'[1].call = "push_null"
                => /\ yielded'[1].res = "Ok"
                   /\ result'[1].offsets
                        = Append(result[1].offsets,
                                 result[1].offsets[Len(result[1].offsets)])
                   /\ result'[1].validity
                        = IF result[1].validity = None
                          THEN Some([i \in 1..Len(result[1].offsets) |->
                                        i < Len(result[1].offsets)])
                          ELSE Some(Append(result[1].validity[1], FALSE))]_vars

\* The first push_null came after two valid entries
FirstNullAfterTwoValid ==
    /\ args.op = "avro"
    /\ args.kind = "List"
    /\ yielded[1].call = "push_null"
    /\ result[1].validity = Some(<<TRUE, TRUE, FALSE>>)
    /\ Len(result[1].offsets) = 4

\* The children of the struct builder all have n entries
ChildrenOfLength(b, n) == \A f \in 1..Len(b.values) : Len(b.values[f]) = n

\* C24: push_null on a struct builder whose children all have n entries
\* appends a null to every child and leaves a validity whose last bit is
\* false; the first push_null creates the validity of n true bits and one
\* false bit.
StructPushNullFillsChildren ==
    [][(AvroStep("Struct", "push_null")
        /\ ChildrenOfLength(result[1], Len(result[1].values[1])))
        => /\ yielded'[1].res = "Ok"
           /\ \A f \in 1..Len(result[1].values) :
                result'[1].values[f] = Append(result[1].values[f], FALSE)
           /\ result'[1].validity # None
           /\ ~result'[1].validity[1][Len(result'[1].validity[1])]
           /\ result[1].validity = None
                => result'[1].validity
                    = Some([i \in 1..(Len(result[1].values[1]) + 1) |->
                                i <= Len(result[1].values[1])])]_vars

\* The first push_null of a struct of two children that have one entry each
StructFirstNull ==
    /\ args.op = "avro"
    /\ args.kind = "Struct"
    /\ yielded[1].call = "push_null"
    /\ result[1].values = << <<TRUE, FALSE>>, <<TRUE, FALSE>> >>
    /\ result[1].validity = Some(<<TRUE, FALSE>>)

\* C25: the DictionaryArray as_box or as_arc returns has no valid key outside
\* [0, values.len()), whatever keys push_valid was given; its null keys are at
\* the positions of the push_null calls and its values are the array given at
\* construction.
ReturnedKeysInRange ==
    (/\ args.op = "avro"
     /\ args.kind = "Dictionary"
     /\ yielded[1].call = "as_box"
     /\ yielded[1].array # <<>>)
        => /\ \A i \in 1..Len(yielded[1].array[1].keys) :
                yielded[1].array[1].keys[i] # None
                    => /\ 0 <= yielded[1].array[1].keys[i][1]
                       /\ yielded[1].array[1].keys[i][1]
                            < Len(yielded[1].array[1].values)
           /\ Len(yielded[1].array[1].keys) = Len(yielded[1].pushes)
           /\ \A i \in 1..Len(yielded[1].pushes) :
                (yielded[1].array[1].keys[i] = None)
                    <=> (yielded[1].pushes[i] = "null")
           /\ yielded[1].array[1].values = args.made.values

\* An array of a valid and a null key was returned
DictionaryReturned ==
    /\ args.op = "avro"
    /\ args.kind = "Dictionary"
    /\ yielded[1].call = "as_box"
    /\ yielded[1].array = <<[keys |-> <<Some(1), None>>, values |-> <<"a", "b">>]>>

\* ------------------------------------ claims on dictionary indices out of range
\* The entries of the dictionary held for the call
HeldEntries ==
    IF args.op = "fsb" THEN Len(args.held[1]) \div args.size
    ELSE Len(args.held[1])

\* The call decoded a dictionary-encoded page whose first index is out of the
\* held dictionary, and took the value of that index
BadIndexDecoded ==
    /\ args.op \in {"fsb", "binary"}
    /\ yielded # <<>>
    /\ IsDictEncoding(args.page.encoding)
    /\ args.held # None
    /\ args.page.indices # <<>>
    /\ args.page.indices[1] >= HeldEntries
    /\ args.op = "fsb"
        => \E j \in 1..Min(args.remaining, Len(args.page.validity)) :
                args.page.validity[j]

\* C26: decoding a dictionary-encoded page that has an index not smaller than
\* the number of entries of the held dictionary reports an OutOfSpec error: it
\* neither panics nor appends a value.
BadIndexIsOutOfSpec ==
    BadIndexDecoded
        => /\ "error" \in DOMAIN yielded[1]
           /\ yielded[1].error = "OutOfSpec"

\* ------------------------------------------ claims on the round trip
\* The indices a reader gets from the data page: the encoder wrote `declared`
\* elements of bit_width bits each, taken from the indices it was given and
\* padded with zero bits
hybrid_rle_decoded(page) ==
    [i \in 1..page.declared |->
        IF i <= Len(page.indices) THEN page.indices[i] % Pow2(page.bit_width)
        ELSE 0]

\* The DictionaryArray read from a dictionary page and a data page of a column
\* without nulls: the keys are the indices of the data page, num_values of
\* them at most, the values the plain entries of the dictionary page
decode_dictionary(dict_page, data_page) ==
    [keys |-> SubSeq(hybrid_rle_decoded(data_page), 1,
                     Min(data_page.num_values, data_page.declared)),
     values |-> deserialize_plain(dict_page.buffer, dict_page.num_values)]

AllTrue(validity) ==
    validity = None \/ \A i \in 1..Len(validity[1]) : validity[1][i]

\* The array written has no null: no null key and no null value
NoNulls(array) == AllTrue(array.keys_validity) /\ AllTrue(array.values_validity)

\* C27: the pages array_to_pages writes for a DictionaryArray without nulls
\* decode to the keys and the dictionary values of the array.
DictionaryRoundTrip ==
    (/\ args.op = "array_to_pages"
     /\ Len(yielded) = 2
     /\ NoNulls(args.array))
        => /\ decode_dictionary(yielded[1], yielded[2]).keys = args.array.keys
           /\ decode_dictionary(yielded[1], yielded[2]).values = args.array.values

\* --------------------------------------------------- BinaryValueIter
\* BinaryArray<O>: offsets (one more than the elements, starting at 0) into a
\* buffer of bytes
RECURSIVE binary_offsets(_)
binary_offsets(elems) ==
    IF elems = <<>> THEN <<0>>
    ELSE LET front == binary_offsets(SubSeq(elems, 1, Len(elems) - 1))
         IN  Append(front, front[Len(front)] + Len(elems[Len(elems)]))

RECURSIVE binary_values(_)
binary_values(elems) ==
    IF elems = <<>> THEN <<>> ELSE Head(elems) \o binary_values(Tail(elems))

BinaryArray(elems) ==
    [offsets |-> binary_offsets(elems), values |-> binary_values(elems)]

binary_len(array) == Len(array.offsets) - 1

value_unchecked(array, i) ==
    SubSeq(array.values, array.offsets[i + 1] + 1, array.offsets[i + 2])

BinaryValueIter_new(array) == [index |-> 0]

BinaryValueIter_next_unadvanced(it, array) ==
    IF it.index >= binary_len(array) THEN [it |-> it, item |-> None]
    ELSE [it |-> it, item |-> Some(value_unchecked(array, it.index))]

BinaryValueIter_next(it, array) ==
    IF it.index >= binary_len(array) THEN [it |-> it, item |-> None]
    ELSE LET advanced == [it EXCEPT !.index = @ + 1]
         IN  [it |-> advanced,
              item |-> Some(value_unchecked(array, advanced.index - 1))]

BinaryValueIter_size_hint(it, array) ==
    <<binary_len(array) - it.index, Some(binary_len(array) - it.index)>>

IterItems == {<<>>, <<7>>, <<8, 9>>}

IterArrays ==
    UNION {[1..n -> IterItems] : n \in 0..MaxIterLen}

IterInit ==
    /\ NoObjects
    /\ \E elems \in IterArrays :
          /\ args = [op |-> "iter", array |-> BinaryArray(elems)]
          /\ result = Some(BinaryValueIter_new(BinaryArray(elems)))
    /\ yielded = <<>>

IterNextCall ==
    /\ args.op = "iter"
    /\ Len(yielded) < MaxIterCalls
    /\ LET r == BinaryValueIter_next(result[1], args.array)
       IN  /\ result' = Some(r.it)
           /\ yielded' = Append(yielded, [call |-> "next", item |-> r.item])
    /\ UNCHANGED <<iterVars, unionVars, args>>

IterSizeHint ==
    /\ args.op = "iter"
    /\ Len(yielded) < MaxIterCalls
    /\ yielded' = Append(yielded,
            [call |-> "size_hint",
             item |-> BinaryValueIter_size_hint(result[1], args.array)])
    /\ UNCHANGED <<iterVars, unionVars, args, result>>

IterNext == IterNextCall \/ IterSizeHint

IterSpec == IterInit /\ [][IterNext]_vars

\* ------------------------------------------ claims on BinaryValueIter
\* Number of values yielded by the first p calls
YieldedBefore(p) ==
    Cardinality({q \in 1..p : yielded[q].call = "next" /\ yielded[q].item # None})

\* Number of calls of next among the first p calls
NextsBefore(p) ==
    Cardinality({q \in 1..p : yielded[q].call = "next"})

\* C28: BinaryValueIter is length-exact: size_hint returns (r, Some(r)) with
\* r the array length less the values yielded so far, and the calls of next
\* yield value(0), value(1), ... value(len - 1) in order and None afterwards.
IterLengthExact ==
    args.op = "iter" =>
        \A p \in 1..Len(yielded) :
            LET len == binary_len(args.array)
            IN  IF yielded[p].call = "size_hint"
                THEN LET r == len - YieldedBefore(p - 1)
                     IN  r >= 0 /\ yielded[p].item = <<r, Some(r)>>
                ELSE LET i == NextsBefore(p - 1)
                     IN  yielded[p].item =
                            IF i < len
                            THEN Some(SubSeq(args.array.values,
                                             args.array.offsets[i + 1] + 1,
                                             args.array.offsets[i + 2]))
                            ELSE None

IterExhaustedTwice ==
    /\ args.op = "iter"
    /\ binary_len(args.array) = 2
    /\ args.array.offsets = <<0, 2, 3>>
    /\ Len(yielded) = 5
    /\ yielded[1] = [call |-> "next", item |-> Some(<<8, 9>>)]
    /\ yielded[2] = [call |-> "next", item |-> Some(<<7>>)]
    /\ yielded[3] = [call |-> "next", item |-> None]
    /\ yielded[4] = [call |-> "next", item |-> None]
    /\ yielded[5] = [call |-> "size_hint", item |-> <<0, Some(0)>>]

\* ------------------------------------------ claims on the empty data page
\* The data pages without a level: num_values = 0
EmptyPages == {page \in DataPages : page.levels = <<>>}

\* The chunk extend starts when the queue is empty
FreshChunk == <<init_nested(ListOfBinary, unwrap_or(chunk_size, 0)), with_capacity(0)>>

\* The queue `after` is the queue `before`, or `before` is empty and `after`
\* holds one chunk without a row
SameRowsQueued(after, before) ==
    after = before \/ (before = <<>> /\ after = <<FreshChunk>>)

\* What a call of next returns: its kind and the rows and values of its chunk
Rendered(r) ==
    IF r.kind = "SomeOk"
    THEN <<Rows(r.chunk[1]), r.chunk[1][1].nested, r.chunk[1][2]>>
    ELSE <<0, r.kind>>

\* The rows of a returned chunk; an end of the stream and a chunk without a
\* row both return no row
RowsRendered(r) ==
    IF r.kind = "SomeOk" /\ Rows(r.chunk[1]) > 0 THEN Rendered(r)
    ELSE IF r.kind \in {"SomeOk", "None"} THEN <<0, "NoRow">>
    ELSE Rendered(r)

\* What the call of next leaves when the source yields the empty data page
\* `page`: the outcome PollData installs
AfterEmpty(page) == next(page, items, dict, remaining, ListOfBinary, chunk_size)

\* C29: a data page with num_values = 0 adds no row to any chunk, leaves
\* `remaining` unchanged and keeps the installed dictionary; the call returns no
\* chunk, and whatever the source yields next, the rows returned and the
\* state left are those of a stream without the empty page.
EmptyPageIsSkipped ==
    (polls /\ pagesLeft > 0) =>
        \A page \in EmptyPages :
            /\ AfterEmpty(page).read
            /\ AfterEmpty(page).remaining = remaining
            /\ AfterEmpty(page).dict = dict
            /\ returned_rows(AfterEmpty(page)) = 0
            /\ AfterEmpty(page).kind \in {"More", "SomeErr"}
            /\ AfterEmpty(page).kind = "SomeErr" <=> raises(page, dict)
            /\ QueuedRows(AfterEmpty(page).items) = QueuedRows(items)
            /\ AllValues(AfterEmpty(page).items) = AllValues(items)
            /\ SameRowsQueued(AfterEmpty(page).items, items)
            /\ AfterEmpty(page).items = items
               \/ \A polled \in DataPages \cup DictPages \cup {SourceErr, SourceEnd} :
                    LET with == next(polled, AfterEmpty(page).items,
                                     AfterEmpty(page).dict,
                                     AfterEmpty(page).remaining,
                                     ListOfBinary, chunk_size)
                        without == next(polled, items, dict, remaining,
                                        ListOfBinary, chunk_size)
                    IN  /\ RowsRendered(with) = RowsRendered(without)
                        /\ with.remaining = without.remaining
                        /\ with.dict = without.dict
                        /\ SameRowsQueued(with.items, without.items)

\* An empty data page was read after a dictionary page, before any row
EmptyPageAfterDict ==
    /\ ret.read = "Data"
    /\ ret.kind = "More"
    /\ items = <<FreshChunk>>
    /\ dict # None
    /\ lastDictPage # None
    /\ dict = Some(deserialize_dict(lastDictPage[1]))
    /\ remaining = num_rows
    /\ remaining > 0

\* ------------------------------------------ claims on the push rule
\* The validity pushed at a depth for a pair
PushedValidity(nested, depth, def) ==
    is_nullable(nested[depth]) /\ def > cum_sum(nested, depth)

\* Whether the builder of a depth receives a push for a pair: is_required is
\* carried from the depth above (a struct that was pushed as not valid), or
\* the pair is at the right level
RECURSIVE ReceivesPush(_, _, _, _)
ReceivesPush(nested, depth, rep, def) ==
    \/ /\ depth > 1
       /\ ReceivesPush(nested, depth - 1, rep, def)
       /\ is_required(nested[depth - 1])
       /\ ~PushedValidity(nested, depth - 1, def)
    \/ (rep <= cum_rep(nested, depth) /\ def >= cum_sum(nested, depth))

\* The validities pushed at a depth for the pairs of `levels`, in order
RECURSIVE PushedValidities(_, _, _)
PushedValidities(nested, depth, levels) ==
    IF levels = <<>> THEN <<>>
    ELSE (IF ReceivesPush(nested, depth, Head(levels)[1], Head(levels)[2])
          THEN <<PushedValidity(nested, depth, Head(levels)[2])>>
          ELSE <<>>)
         \o PushedValidities(nested, depth, Tail(levels))

\* The pairs a call has taken from its page
PairsTaken(call) == SubSeq(call.levels, 1, Len(call.levels) - Len(call.left))

\* C30: for the pairs a call of extend_offsets2 takes, the builder of depth d
\* receives a push exactly for the pairs for which is_required is carried or
\* rep <= cum_rep[d] and def >= cum_sum[d], with validity (nullable and
\* def > cum_sum[d]); the builder of depth 0 receives one push for each pair
\* with rep = 0.
PushRuleStep ==
    (args.op = "extend_offsets2" /\ yielded' # <<>>) =>
        LET before == result[1][1].nested
            after == result'[1][1].nested
            taken == PairsTaken(yielded'[1])
        IN  /\ \A d \in 1..Len(before) :
                  LET pushed == PushedValidities(before, d, taken)
                  IN  /\ nested_len(after[d]) = nested_len(before[d]) + Len(pushed)
                      /\ after[d].kind \in {"Optional", "Struct"}
                            => after[d].validity = before[d].validity \o pushed
            /\ nested_len(after[1]) =
                  nested_len(before[1]) + RowsOf(taken)

PushRule == [][PushRuleStep]_vars

\* A null list, then a list with a first null struct: the struct receives one
\* push, not valid, and the value below it the push carried by is_required
CarriedPush ==
    /\ args.op = "extend_offsets2"
    /\ args.init = ListOfStruct
    /\ yielded # <<>>
    /\ yielded[1].levels = << <<0, 0>>, <<0, 2>> >>
    /\ yielded[1].left = <<>>
    /\ yielded[1].used = 2
    /\ nested_len(ChunkNested[1]) = 2
    /\ ChunkNested[1].validity = <<FALSE, TRUE>>
    /\ ChunkNested[2].validity = <<FALSE>>
    /\ nested_len(ChunkNested[3]) = 1

\* ------------------------------------------ claims on the leaf
\* Whether the leaf, when visited for a pair, is given a value of the page
LeafTakesValue(nested, rep, def) ==
    /\ rep <= cum_rep(nested, Len(nested))
    /\ def >= cum_sum(nested, Len(nested))
    /\ (def # cum_sum(nested, Len(nested)) \/ ~is_nullable(nested[Len(nested)]))

\* The decoded state after the leaf pushes of the pairs of `levels`, when
\* `taken` values of the page have been consumed: the k-th value of the page
\* of a call is <<k>>
RECURSIVE LeafDecoded(_, _, _, _)
LeafDecoded(nested, levels, taken, decoded) ==
    IF levels = <<>> THEN decoded
    ELSE IF ~ReceivesPush(nested, Len(nested), Head(levels)[1], Head(levels)[2])
    THEN LeafDecoded(nested, Tail(levels), taken, decoded)
    ELSE IF LeafTakesValue(nested, Head(levels)[1], Head(levels)[2])
    THEN LeafDecoded(nested, Tail(levels), taken + 1,
            [values |-> Append(decoded.values, <<taken + 1>>),
             validity |-> IF is_nullable(nested[Len(nested)])
                          THEN Append(decoded.validity, TRUE)
                          ELSE decoded.validity])
    ELSE LeafDecoded(nested, Tail(levels), taken,
            [values |-> Append(decoded.values, <<>>),
             validity |-> Append(decoded.validity, FALSE)])

\* C31: for each pair in which the leaf is visited exactly one of push_valid
\* and push_null is called: push_valid, which takes the next value of the
\* page, iff right_level holds and (def != cum_sum[max_depth] or the leaf is
\* not nullable), otherwise push_null; when the leaf is not visited nothing
\* is appended and no value is taken.
LeafRuleStep ==
    (args.op = "extend_offsets2" /\ yielded' # <<>>) =>
        result'[1][2] = LeafDecoded(result[1][1].nested, PairsTaken(yielded'[1]),
                                    0, result[1][2])

LeafRule == [][LeafRuleStep]_vars

\* A null list, then a page of a list of a value and a null value: the leaf is
\* not visited for the null list, given the value <<1>> and then a null
LeafNullThenValues ==
    /\ args.op = "extend_offsets2"
    /\ args.init = NullableList
    /\ yielded # <<>>
    /\ yielded[1].levels = << <<0, 3>>, <<1, 2>> >>
    /\ yielded[1].left = <<>>
    /\ yielded[1].used = 3
    /\ ChunkNested[1].validity = <<FALSE, TRUE>>
    /\ ChunkLeaf.values = << <<1>>, <<>> >>
    /\ ChunkLeaf.validity = <<TRUE, FALSE>>

\* ------------------------------------------ claims on the row quota
\* C32: extend_offsets2 called with additional >= 1 takes the pairs of the
\* page up to the end of the additional-th row it started: when it leaves
\* pairs in the page, the next pair starts a row (rep = 0) and the rows it
\* started are exactly `additional`; it never starts more rows than
\* `additional`, and it takes the whole page when the page starts no more
\* rows than that.
StopsAtRowQuota ==
    (args.op = "extend_offsets2" /\ yielded # <<>>) =>
        LET call == yielded[1]
        IN  /\ call.additional >= 1
            /\ call.levels = PairsTaken(call) \o call.left
            /\ RowsOf(PairsTaken(call)) <= call.additional
            /\ IF call.left = <<>>
               THEN RowsOf(call.levels) <= call.additional
               ELSE /\ Head(call.left)[1] = 0
                    /\ RowsOf(PairsTaken(call)) = call.additional

\* Two rows asked of a page of four: the call stops after the three values of
\* the first row and the empty second row, before the null third row
StoppedAfterSecondRow ==
    /\ args.op = "extend_offsets2"
    /\ yielded # <<>>
    /\ yielded[1].levels = ListExampleLevels
    /\ yielded[1].additional = 2
    /\ yielded[1].left = << <<0, 0>>, <<0, 3>> >>
    /\ nested_len(ChunkNested[1]) = 2
    /\ Len(ChunkLeaf.values) = 3

\* ------------------------------- pushes of the nested Binary decoder
\* The pages whose state the pushes are made on: plain or dictionary encoded,
\* optional or required, with a value stream of 0..MaxPageValues entries
PushDict == << <<11>>, <<12>> >>

PushPages ==
    {[DataPage(e, o, FALSE, TRUE, <<>>)
        EXCEPT !.values = IF IsDictEncoding(e) THEN <<>>
                          ELSE [i \in 1..n |-> <<i>>],
               !.indices = IF IsDictEncoding(e) THEN [i \in 1..n |-> (i + k) % 2]
                           ELSE <<>>] :
        e \in {"Plain", "PlainDictionary", "RleDictionary"}, o \in BOOLEAN,
        n \in 0..MaxPageValues, k \in 0..1}

\* build_state has returned the state; the DecodedState is new
PushInit ==
    /\ NoObjects
    /\ \E page \in PushPages :
        /\ args = [op |-> "push", page |-> page,
                   held |-> IF IsDictEncoding(page.encoding) THEN Some(PushDict)
                            ELSE None]
        /\ result = Some(build_state(page,
                            IF IsDictEncoding(page.encoding) THEN Some(PushDict)
                            ELSE None)[2])
    /\ yielded = <<[decoded |-> with_capacity(0), pushes |-> <<>>]>>

\* decoder.push_valid(state, decoded)
DecoderPushValid ==
    /\ args.op = "push"
    /\ Len(yielded[1].pushes) < MaxPushes
    /\ result' = Some(push_valid(result[1], yielded[1].decoded).state)
    /\ yielded' = <<[decoded |-> push_valid(result[1], yielded[1].decoded).decoded,
                     pushes |-> Append(yielded[1].pushes, "valid")]>>
    /\ UNCHANGED args
    /\ UNCHANGED <<iterVars, unionVars>>

\* decoder.push_null(decoded)
DecoderPushNull ==
    /\ args.op = "push"
    /\ Len(yielded[1].pushes) < MaxPushes
    /\ yielded' = <<[decoded |-> push_null(yielded[1].decoded),
                     pushes |-> Append(yielded[1].pushes, "null")]>>
    /\ UNCHANGED <<args, result>>
    /\ UNCHANGED <<iterVars, unionVars>>

PushNext == DecoderPushValid \/ DecoderPushNull

PushSpec == PushInit /\ [][PushNext]_vars

\* ------------------------------------------ claims on the pushes
\* The value stream of the page of the calls, each index resolved through
\* the dictionary
PageStream ==
    IF IsDictEncoding(args.page.encoding)
    THEN [i \in 1..Len(args.page.indices) |-> PushDict[args.page.indices[i] + 1]]
    ELSE args.page.values

OptionalState == args.page.is_optional

\* The number of push_valid among the first p pushes
ValidBefore(p) ==
    Cardinality({q \in 1..p : yielded[1].pushes[q] = "valid"})

\* C33: push_valid appends one value taken from the page, resolved through the
\* dictionary in the dictionary states, and one true bit in the optional
\* states; push_null appends one empty value and one false bit; in the
\* optional states the validity has as many bits as there are values.
PushesAppendOneEach ==
    args.op = "push" =>
        LET pushes == yielded[1].pushes
            decoded == yielded[1].decoded
            bits == [p \in 1..Len(pushes) |-> pushes[p] = "valid"]
        IN  /\ Len(decoded.values) = Len(pushes)
            /\ \A p \in 1..Len(pushes) :
                  /\ pushes[p] = "null" => decoded.values[p] = <<>>
                  /\ (pushes[p] = "valid" /\ ValidBefore(p) <= Len(PageStream))
                        => decoded.values[p] = PageStream[ValidBefore(p)]
            /\ result[1].values =
                  SubSeq(IF IsDictEncoding(args.page.encoding)
                         THEN args.page.indices ELSE args.page.values,
                         Min(ValidBefore(Len(pushes)), Len(PageStream)) + 1,
                         Len(PageStream))
            /\ IF OptionalState
               THEN /\ decoded.validity = bits
                    /\ Len(decoded.validity) = Len(decoded.values)
               ELSE decoded.validity =
                        SelectSeq(bits, LAMBDA bit : ~bit)

\* An optional dictionary page: two values resolved through the dictionary
\* around a null
DictionaryValuesAroundNull ==
    /\ args.op = "push"
    /\ args.page.encoding = "RleDictionary"
    /\ OptionalState
    /\ args.page.indices = <<1, 0>>
    /\ yielded[1].pushes = <<"valid", "null", "valid">>
    /\ yielded[1].decoded.values = << <<12>>, <<>>, <<11>> >>
    /\ yielded[1].decoded.validity = <<TRUE, FALSE, TRUE>>

\* C40: a push_valid made after the value stream of the page is exhausted
\* appends an empty value, marked valid in the optional states, and reports
\* no error; the values appended are as many as the pushes.
ExhaustedPushIsEmptyValid ==
    args.op = "push" =>
        LET pushes == yielded[1].pushes
            decoded == yielded[1].decoded
        IN  /\ DOMAIN yielded[1] = {"decoded", "pushes"}
            /\ DOMAIN decoded = {"values", "validity"}
            /\ Len(decoded.values) = Len(pushes)
            /\ \A p \in 1..Len(pushes) :
                  (pushes[p] = "valid" /\ ValidBefore(p) > Len(PageStream))
                     => /\ decoded.values[p] = <<>>
                        /\ OptionalState => decoded.validity[p]
                        /\ result[1].values = <<>>

\* Two values asked of an optional plain page that holds one
SecondPushFindsNoValue ==
    /\ args.op = "push"
    /\ args.page.encoding = "Plain"
    /\ OptionalState
    /\ args.page.values = << <<1>> >>
    /\ yielded[1].pushes = <<"valid", "valid">>
    /\ yielded[1].decoded.values = << <<1>>, <<>> >>
    /\ yielded[1].decoded.validity = <<TRUE, TRUE>>
    /\ result[1].values = <<>>

\* ------------------------------------------ claims on the builders' state
\* A list builder in use: made, not finalized
ListInUse ==
    /\ args.op = "avro"
    /\ args.kind = "List"
    /\ yielded[1].call # "as_box"

\* C34: after any sequence of try_push_valid and push_null on a
\* DynMutableListArray whose child never shrinks, offsets starts with 0 and
\* is non-decreasing, len() = offsets.len() - 1 is the number of entries
\* pushed, the last offset is at most the child's length, and the validity,
\* when present, has len() bits, bit i false iff entry i came from push_null.
ListBuilderInvariant ==
    ListInUse =>
        LET b == result[1]
            pushes == yielded[1].pushes
        IN  /\ yielded[1].res # "Panic"
            /\ b.offsets # <<>>
            /\ b.offsets[1] = Usize(0, 0)
            /\ \A i \in 1..(Len(b.offsets) - 1) :
                  UsizeLeq(b.offsets[i], b.offsets[i + 1])
            /\ Len(b.offsets) - 1 = Len(pushes)
            /\ UsizeLeq(last_offset(b), b.values)
            /\ b.validity # None =>
                  /\ Len(b.validity[1]) = Len(pushes)
                  /\ \A i \in 1..Len(pushes) :
                        b.validity[1][i] = (pushes[i] # "null")

\* A valid entry, a null and a valid entry that ends further in the child
ListValidNullValid ==
    /\ ListInUse
    /\ yielded[1].pushes = <<"valid", "null", "valid">>
    /\ result[1].validity = Some(<<TRUE, FALSE, TRUE>>)
    /\ result[1].offsets[2] = Usize(0, 1)
    /\ result[1].offsets[3] = Usize(0, 1)
    /\ result[1].offsets[4] = Usize(0, 2)

\* A struct builder in use whose rows are complete: every child holds one
\* entry for each row pushed
StructRowsComplete ==
    /\ args.op = "avro"
    /\ args.kind = "Struct"
    /\ yielded[1].call # "as_box"
    /\ yielded[1].res # "Panic"
    /\ \A f \in 1..Len(result[1].values) :
            Len(result[1].values[f]) = Len(yielded[1].pushes)

\* C35: after any sequence of valid rows (one entry pushed to every child
\* through mut_values) and push_null calls on a DynMutableStructArray, the
\* validity, when present, has len() bits and bit i is false iff row i came
\* from push_null.
StructValidityTracksRows ==
    (StructRowsComplete /\ result[1].validity # None) =>
        /\ Len(result[1].validity[1]) = struct_len(result[1])
        /\ \A i \in 1..Len(yielded[1].pushes) :
              result[1].validity[1][i] = (yielded[1].pushes[i] # "null")

\* ------------------------------------------ claims on `remaining`
\* C36: after every call of next, `remaining` plus the rows of the queued
\* chunks plus the rows of the chunks returned so far is the num_rows given at
\* construction; `remaining` never increases and never goes below zero.
RemainingStep ==
    /\ remaining' <= remaining
    /\ remaining' >= 0
    /\ remaining' + QueuedRows(items') + returnedRows' = num_rows

RemainingAccountsForRows == [][RemainingStep]_vars

\* Two rows owed in chunks of one, read from one page: one chunk returned, the
\* other queued, nothing owed
RowsSplitOverQueue ==
    /\ ret.read = "Data"
    /\ ret.kind = "SomeOk"
    /\ chunk_size = Some(1)
    /\ num_rows = 2
    /\ remaining = 0
    /\ returnedRows = 1
    /\ QueuedRows(items) = 1

\* ------------------------------------------ claims on the leaf count
\* The entries the leaf builder of a chunk counts are the values of its
\* decoded state
LeafCounted(chunk) ==
    nested_len(chunk[1].nested[Len(chunk[1].nested)]) = Len(chunk[2].values)

\* C37: in every chunk, queued, returned or being extended, the entries
\* counted by the builder of the leaf depth are as many as the values appended
\* to the decoded state.
LeafCountIsValues ==
    /\ \A i \in 1..Len(items) : LeafCounted(items[i])
    /\ ret.chunk # None => LeafCounted(ret.chunk[1])
    /\ (args.op = "extend_offsets2" /\ result # None) => LeafCounted(result[1])

\* A null struct, whose leaf is given a null, and a struct with a value
LeafCountedUnderNullStruct ==
    /\ args.op = "extend_offsets2"
    /\ args.init = NullableStruct
    /\ yielded # <<>>
    /\ yielded[1].levels = << <<0, 0>>, <<0, 2>> >>
    /\ yielded[1].left = <<>>
    /\ nested_len(ChunkNested[2]) = 2
    /\ ChunkLeaf.values = << <<>>, <<1>> >>
    /\ ChunkLeaf.validity = <<FALSE, TRUE>>

\* ------------------------------------------ claims on the page header
\* C38: the null_count of the header of the dictionary data page is the
\* number of rows whose unified validity is false, which is the length of the
\* array less the number of indices encoded in the page.
HeaderNullCountIsNullRows ==
    \A page \in DataYielded :
        /\ page.null_count =
              Cardinality({i \in 1..Len(args.array.keys) : ~RowValid(args.array, i)})
        /\ page.null_count = Len(args.array.keys) - Len(page.indices)

\* --------------------------------------------- claims on termination
\* A call of `next` that returns More has taken one page off the source
MoreTookAPage == ret'.kind = "More" => pagesLeft' = pagesLeft - 1

\* C39: over a finite page source that returns no error, every More has
\* consumed one page, so that NestedIter::next, which calls `next` again on
\* More, comes to a result other than More, and after finitely many calls the
\* iterator returns None.
NextTerminates ==
    /\ [][MoreTookAPage]_vars
    /\ (ret.kind = "More") ~> (ret.kind # "More")
    /\ <>(ret.kind = "None")

\* None is returned after a dictionary page (a More) and two chunks of one
\* row, the source read to its end
DrainedAfterDictionary ==
    /\ ret.kind = "None"
    /\ lastDictPage # None
    /\ num_rows = 2
    /\ chunk_size = Some(1)
    /\ returnedRows = 2
    /\ pagesLeft = 0

====
